---- MODULE Spec2Model ----
(***************************************************************************)
(* Internal transfers: accounts, pairwise transfers and the audit trail.   *)
(*                                                                         *)
(* The store is PostgreSQL (db/migrations/001_init.sql); the services run  *)
(* one request per goroutine (cmd/server/main.go).  A transfer is modelled *)
(* statement by statement, as TransactionServiceImpl.Transfer issues them; *)
(* every statement either succeeds or returns an error.                    *)
(*                                                                         *)
(* Money values.  The Go code carries balances and amounts as float64      *)
(* (internal/models/models.go) and the schema stores them as DECIMAL(18,2).*)
(* A value is modelled as an integer number of 1/UnitsPerCent of a cent;   *)
(* the store keeps whole cents only, so every write of a value goes        *)
(* through ToNumeric.                                                      *)
(*                                                                         *)
(* Account ids.  Ids are strings; they are modelled as the numbers         *)
(* 1, 2, ..., whose numeric order stands for the lexicographic order  *)
(* of the strings, and 0 stands for the empty string.                      *)
(***************************************************************************)
EXTENDS Integers, FiniteSets, Sequences, TLC

\* ---------------------------------------------------------------- bounds
MaxTransfers == 2
MaxAmount == 2
UnitsPerCent == 2

EmptyID == 0
\* The ids a row of accounts can carry, and the ids the callers of Spec send.
AccountIDs == {1, 2, 3, 4}
RequestIDs == {EmptyID, 1, 2}
\* The ids a CreateAccountRequest can carry.
CreateIDs == {EmptyID} \cup AccountIDs
Workers == {1, 2}
Amounts == 0..MaxAmount
InitialBalances == {-1, 0, UnitsPerCent - 1}

\* ------------------------------------------------------------- variables
VARIABLES
    accounts,           \* table accounts: id -> row (committed)
    transactions,       \* table transactions (committed rows)
    audit_logs,         \* table audit_logs (committed rows)
    rowUpdates,         \* history: every committed UPDATE of an accounts row
    nextUow,            \* number of units of work begun so far
    pc,                 \* per worker: position inside Transfer
    req,                \* per worker: the CreateTransactionRequest
    tx,                 \* per worker: the *sql.Tx of the call
    sourceAccount,      \* per worker: row read under the source lock
    destinationAccount, \* per worker: row read under the destination lock
    transaction,        \* per worker: the models.Transaction being built
    result,             \* per worker: what Transfer returned
    createResult,       \* per id: what the last CreateAccount call with it returned
    getResult,          \* what the last GetAccount call returned
    creating            \* per worker: the CreateAccount call it runs, step by step

vars == <<accounts, transactions, audit_logs, rowUpdates, nextUow, pc, req, tx,
          sourceAccount, destinationAccount, transaction, result, createResult,
          getResult, creating>>

store == <<accounts, transactions, audit_logs, rowUpdates>>
locals == <<sourceAccount, destinationAccount, transaction>>
\* Everything a call of Transfer reads or writes outside the store.
transfers == <<nextUow, pc, req, tx, locals, result>>

\* ---------------------------------------------------------------- values
NoRow == [exists |-> FALSE, balance |-> 0, xmin |-> 0]
NoErr == [kind |-> "nil", detail |-> "", cause |-> ""]
NoRequest == [source_account_id |-> EmptyID, destination_account_id |-> EmptyID, amount |-> 0]
NoTransaction == [id |-> 0, source_account_id |-> EmptyID,
                  destination_account_id |-> EmptyID, amount |-> 0]
NoResult == [transaction |-> NoTransaction, err |-> NoErr]
NoCreateResult == [called |-> FALSE, balance |-> 0, err |-> NoErr]
NoCreating == [pc |-> "idle", id |-> EmptyID, initial_balance |-> 0, err |-> NoErr]
NoGetResult == [called |-> FALSE, id |-> EmptyID, balance |-> 0, err |-> NoErr]
NoTx == [state |-> "none", uow |-> 0, snap |-> [a \in AccountIDs |-> NoRow],
         locks |-> {}, writes |-> {}, inserted |-> {}, audits |-> {}]

\* DECIMAL(18,2): a value written to the store is rounded to whole cents,
\* half away from zero.
ToNumeric(x) ==
    IF x >= 0
    THEN ((2 * x + UnitsPerCent) \div (2 * UnitsPerCent)) * UnitsPerCent
    ELSE 0 - (((2 * (0 - x) + UnitsPerCent) \div (2 * UnitsPerCent)) * UnitsPerCent)

\* CONSTRAINT balance_non_negative CHECK (balance >= 0)
balance_non_negative(b) == b >= 0

\* CONSTRAINT amount_positive CHECK (amount > 0)
amount_positive(a) == a > 0

\* CONSTRAINT different_accounts CHECK (source_account_id != destination_account_id)
different_accounts(s, d) == s # d

\* ------------------------------------------------------------------ errors
\* The error of the driver or of the context (a *pq.Error, context.DeadlineExceeded)
\* that a failed statement returns; TransactionError.Cause and %w keep it.
DriverError == "driver"
ValidationError(field) == [kind |-> "ValidationError", detail |-> field, cause |-> ""]
ErrSameAccount == [kind |-> "ErrSameAccount", detail |-> "", cause |-> ""]
ErrInvalidAmount == [kind |-> "ErrInvalidAmount", detail |-> "", cause |-> ""]
ErrInvalidAccountID == [kind |-> "ErrInvalidAccountID", detail |-> "", cause |-> ""]
ErrNegativeBalance == [kind |-> "ErrNegativeBalance", detail |-> "", cause |-> ""]
ErrAccountAlreadyExists == [kind |-> "ErrAccountAlreadyExists", detail |-> "", cause |-> ""]
ErrInsufficentBalance == [kind |-> "ErrInsufficentBalance", detail |-> "", cause |-> ""]
\* fmt.Errorf("source account: %w", ErrAccountNotFound)
ErrAccountNotFound(which) == [kind |-> "ErrAccountNotFound", detail |-> which, cause |-> ""]
NewTransactionError(operation, cause) ==
    [kind |-> "TransactionError", detail |-> operation, cause |-> cause]
\* fmt.Errorf("failed to create account: %w", err)
CreateAccountError ==
    [kind |-> "error", detail |-> "failed to create account", cause |-> DriverError]

\* ----------------------------------------------------------- initial state
Init ==
    /\ accounts = [a \in AccountIDs |-> NoRow]
    /\ transactions = {}
    /\ audit_logs = {}
    /\ rowUpdates = {}
    /\ nextUow = 0
    /\ pc = [p \in Workers |-> "idle"]
    /\ req = [p \in Workers |-> NoRequest]
    /\ tx = [p \in Workers |-> NoTx]
    /\ sourceAccount = [p \in Workers |-> NoRow]
    /\ destinationAccount = [p \in Workers |-> NoRow]
    /\ transaction = [p \in Workers |-> NoTransaction]
    /\ result = [p \in Workers |-> NoResult]
    /\ createResult = [id \in CreateIDs |-> NoCreateResult]
    /\ getResult = NoGetResult
    /\ creating = [c \in Workers |-> NoCreating]

\* ------------------------------------------------------------ audit rows
\* A JSON snapshot stored in audit_logs.old_value / new_value; Null is SQL NULL.
Null == [null |-> TRUE, id |-> 0, balance |-> 0,
         source_account_id |-> EmptyID, destination_account_id |-> EmptyID, amount |-> 0]
AccountBalanceSnapshot(id, balance) ==
    [null |-> FALSE, id |-> id, balance |-> balance,
     source_account_id |-> EmptyID, destination_account_id |-> EmptyID, amount |-> 0]
txSnapshot(t) ==
    [null |-> FALSE, id |-> t.id, balance |-> 0,
     source_account_id |-> t.source_account_id,
     destination_account_id |-> t.destination_account_id, amount |-> t.amount]
AuditLog(entity_type, entity_id, action, old_value, new_value, uow) ==
    [entity_type |-> entity_type, entity_id |-> entity_id, action |-> action,
     old_value |-> old_value, new_value |-> new_value, uow |-> uow]

\* ------------------------------------------------------- account creation
\* What CreateAccount returns: the account it built from the request (its
\* balance is the requested one, not read back from the store), or no
\* account and an error.
CreateResult(initial_balance, err) ==
    [called |-> TRUE, balance |-> IF err = NoErr THEN initial_balance ELSE 0, err |-> err]

\* Variant of the validation: an initial balance of 0 is refused too.
validateCreateRequestRefusesZero(id, initial_balance) ==
    IF id = EmptyID THEN ErrInvalidAccountID
    ELSE IF initial_balance <= 0 THEN ErrNegativeBalance
    ELSE NoErr

validateCreateRequest(id, initial_balance) ==
    IF id = EmptyID THEN ErrInvalidAccountID
    ELSE IF initial_balance < 0 THEN ErrNegativeBalance
    ELSE NoErr

createAccoutAuditLog(id, balance) ==
    AuditLog("ACCOUNT", id, "CREATE", Null, AccountBalanceSnapshot(id, balance), 0)

\* Variant of the creation: a failed audit write makes the call return an
\* error, the account already inserted.
CreateAccountFailsOnAudit(id, initial_balance, auditOk) ==
    /\ validateCreateRequest(id, initial_balance) = NoErr
    /\ ~accounts[id].exists
    /\ balance_non_negative(ToNumeric(initial_balance))
    /\ accounts' = [accounts EXCEPT ![id] =
           [exists |-> TRUE, balance |-> ToNumeric(initial_balance), xmin |-> 0]]
    /\ audit_logs' = IF auditOk
                     THEN audit_logs \cup {createAccoutAuditLog(id, initial_balance)}
                     ELSE audit_logs
    /\ createResult' = [createResult EXCEPT ![id] =
           CreateResult(initial_balance, IF auditOk THEN NoErr ELSE CreateAccountError)]
    /\ UNCHANGED <<transactions, rowUpdates, transfers, getResult, creating>>

\* AccountServiceImpl.CreateAccount, the call that creates the account:
\* validation, the INSERT (its own autocommitted statement) and then the
\* CREATE audit entry, written by a second autocommitted statement whose
\* failure (auditOk = FALSE) is only logged.
CreateAccount(id, initial_balance, auditOk) ==
    /\ validateCreateRequest(id, initial_balance) = NoErr
    /\ ~accounts[id].exists
    /\ balance_non_negative(ToNumeric(initial_balance))
    /\ accounts' = [accounts EXCEPT ![id] =
           [exists |-> TRUE, balance |-> ToNumeric(initial_balance), xmin |-> 0]]
    /\ audit_logs' = IF auditOk
                     THEN audit_logs \cup {createAccoutAuditLog(id, initial_balance)}
                     ELSE audit_logs
    /\ createResult' = [createResult EXCEPT ![id] = CreateResult(initial_balance, NoErr)]
    /\ UNCHANGED <<transactions, rowUpdates, transfers, getResult, creating>>

\* Variant of the rejected call: the INSERT is an upsert, so a valid request
\* for a taken id overwrites the stored balance and succeeds.
CreateAccountOverwrites(id, initial_balance) ==
    LET verr == validateCreateRequest(id, initial_balance) IN
    /\ verr = NoErr => accounts[id].exists
    /\ IF verr # NoErr
       THEN /\ createResult' = [createResult EXCEPT ![id] = CreateResult(initial_balance, verr)]
            /\ UNCHANGED accounts
       ELSE /\ createResult' = [createResult EXCEPT ![id] = CreateResult(initial_balance, NoErr)]
            /\ accounts' = [accounts EXCEPT ![id].balance = ToNumeric(initial_balance)]
    /\ UNCHANGED <<transactions, audit_logs, rowUpdates, transfers, getResult, creating>>

\* AccountServiceImpl.CreateAccount, the call that is rejected: by
\* validateCreateRequest, before anything else, or by the primary key of
\* accounts (pq error 23505, returned as ErrAccountAlreadyExists).  Nothing
\* is stored and no audit entry is written.
CreateAccountRejected(id, initial_balance) ==
    LET verr == validateCreateRequest(id, initial_balance) IN
    /\ verr = NoErr => accounts[id].exists
    /\ createResult' = [createResult EXCEPT ![id] =
           CreateResult(initial_balance,
                        IF verr # NoErr THEN verr ELSE ErrAccountAlreadyExists)]
    /\ UNCHANGED <<store, transfers, getResult, creating>>

\* AccountServiceImpl.CreateAccount, the INSERT failing for any other reason:
\* the error is wrapped and returned, nothing is stored.
CreateAccountFails(id, initial_balance) ==
    /\ validateCreateRequest(id, initial_balance) = NoErr
    /\ createResult' = [createResult EXCEPT ![id] =
           CreateResult(initial_balance, CreateAccountError)]
    /\ UNCHANGED <<store, transfers, getResult, creating>>

\* ------------------------------------- account creation, statement by statement
\* AccountServiceImpl.CreateAccount as the worker c runs it, for the calls
\* that run at the same time: validation, then the INSERT, then the audit
\* entry, then the return.
CreateAccountCall(c, id, initial_balance) ==
    /\ creating[c].pc = "idle"
    /\ LET verr == validateCreateRequest(id, initial_balance) IN
       creating' = [creating EXCEPT ![c] =
           [pc |-> IF verr # NoErr THEN "done" ELSE "insert",
            id |-> id, initial_balance |-> initial_balance, err |-> verr]]
    /\ UNCHANGED <<store, transfers, createResult, getResult>>

\* Variant of the INSERT: an upsert (ON CONFLICT (id) DO UPDATE), which
\* overwrites the balance of a row that exists and succeeds.
InsertAccountUpsert(c) ==
    /\ creating[c].pc = "insert"
    /\ balance_non_negative(ToNumeric(creating[c].initial_balance))
    /\ accounts' = [accounts EXCEPT ![creating[c].id] =
           [exists |-> TRUE, balance |-> ToNumeric(creating[c].initial_balance),
            xmin |-> 0]]
    /\ creating' = [creating EXCEPT ![c].pc = "audit"]
    /\ UNCHANGED <<transactions, audit_logs, rowUpdates, transfers, createResult, getResult>>

\* Variant of the creation: the audit entry is written first, before the
\* INSERT of the account has been tried.
InsertAccountAuditFirst(c) ==
    /\ creating[c].pc = "insert"
    /\ audit_logs' = audit_logs \cup {createAccoutAuditLog(creating[c].id,
                                                           creating[c].initial_balance)}
    /\ IF accounts[creating[c].id].exists
       THEN /\ creating' = [creating EXCEPT ![c].pc = "done",
                                            ![c].err = ErrAccountAlreadyExists]
            /\ UNCHANGED accounts
       ELSE /\ balance_non_negative(ToNumeric(creating[c].initial_balance))
            /\ accounts' = [accounts EXCEPT ![creating[c].id] =
                   [exists |-> TRUE, balance |-> ToNumeric(creating[c].initial_balance),
                    xmin |-> 0]]
            /\ creating' = [creating EXCEPT ![c].pc = "audit"]
    /\ UNCHANGED <<transactions, rowUpdates, transfers, createResult, getResult>>

\* AccountRepository.CreateAccount: one INSERT, committed on its own.  The
\* primary key of accounts decides between the calls for one id: the row is
\* inserted if there is none, and the statement fails with 23505, returned as
\* ErrAccountAlreadyExists, if there is one.
InsertAccount(c) ==
    /\ creating[c].pc = "insert"
    /\ IF accounts[creating[c].id].exists
       THEN /\ creating' = [creating EXCEPT ![c].pc = "done",
                                            ![c].err = ErrAccountAlreadyExists]
            /\ UNCHANGED accounts
       ELSE /\ balance_non_negative(ToNumeric(creating[c].initial_balance))
            /\ accounts' = [accounts EXCEPT ![creating[c].id] =
                   [exists |-> TRUE, balance |-> ToNumeric(creating[c].initial_balance),
                    xmin |-> 0]]
            /\ creating' = [creating EXCEPT ![c].pc = "audit"]
    /\ UNCHANGED <<transactions, audit_logs, rowUpdates, transfers, createResult, getResult>>

\* The INSERT fails for another reason: the wrapped error is returned.
InsertAccountFails(c) ==
    /\ creating[c].pc = "insert"
    /\ creating' = [creating EXCEPT ![c].pc = "done", ![c].err = CreateAccountError]
    /\ UNCHANGED <<store, transfers, createResult, getResult>>

\* createAccoutAuditLog, after the INSERT: the entry is written with
\* CreateWithDB; a failure (auditOk = FALSE) is logged and the account is
\* returned all the same.
CreateAccountAudit(c, auditOk) ==
    /\ creating[c].pc = "audit"
    /\ audit_logs' = IF auditOk
                     THEN audit_logs \cup {createAccoutAuditLog(creating[c].id,
                                                                creating[c].initial_balance)}
                     ELSE audit_logs
    /\ creating' = [creating EXCEPT ![c].pc = "done"]
    /\ UNCHANGED <<accounts, transactions, rowUpdates, transfers, createResult, getResult>>

\* The caller has the result; the worker takes the next request.
CreateAccountReturn(c) ==
    /\ creating[c].pc = "done"
    /\ creating' = [creating EXCEPT ![c] = NoCreating]
    /\ UNCHANGED <<store, transfers, createResult, getResult>>

\* ------------------------------------------------------- account lookup
\* fmt.Errorf("failed to get account by ID: %w", err)
GetAccountError ==
    [kind |-> "error", detail |-> "failed to get account by ID", cause |-> DriverError]

GetResult(id, balance, err) == [called |-> TRUE, id |-> id, balance |-> balance, err |-> err]

\* Variant of the lookup: it reads the row as the open unit of work of a
\* worker has staged it, not the committed one.
GetAccountByIDUncommitted(id) ==
    IF \E p \in Workers : tx[p].state = "open" /\ \E w \in tx[p].writes : w.id = id
    THEN LET p == CHOOSE q \in Workers :
                      tx[q].state = "open" /\ \E w \in tx[q].writes : w.id = id
             w == CHOOSE u \in tx[p].writes : u.id = id
         IN [exists |-> TRUE, balance |-> w.balance, xmin |-> tx[p].uow]
    ELSE accounts[id]

\* AccountRepository.GetAccountByID: one SELECT on the pool, outside every
\* unit of work and without FOR UPDATE: it reads the committed row and never
\* waits for a row lock.
GetAccountByID(id) == accounts[id]

\* AccountServiceImpl.GetAccount: the empty id is refused before the store
\* is read, a missing row is ErrAccountNotFound as the repository returns it.
GetAccountResult(id) ==
    IF id = EmptyID THEN GetResult(id, 0, ErrInvalidAccountID)
    ELSE IF ~GetAccountByID(id).exists THEN GetResult(id, 0, ErrAccountNotFound(""))
    ELSE GetResult(id, GetAccountByID(id).balance, NoErr)

GetAccount(id) ==
    /\ getResult' = GetAccountResult(id)
    /\ UNCHANGED <<store, transfers, createResult, creating>>

\* AccountServiceImpl.GetAccount, the SELECT failing for any other reason.
GetAccountFails(id) ==
    /\ id # EmptyID
    /\ getResult' = GetResult(id, 0, GetAccountError)
    /\ UNCHANGED <<store, transfers, createResult, creating>>

\* ------------------------------------------------------ transfer: helpers
\* Variant of the validation: the same-account test is left out.
validateTransferRequestNoSameAccount(r) ==
    IF r.source_account_id = EmptyID THEN ValidationError("source_account_id")
    ELSE IF r.destination_account_id = EmptyID THEN ValidationError("destination_account_id")
    ELSE IF r.amount <= 0 THEN ErrInvalidAmount
    ELSE NoErr

\* Variant of the validation: the amount is tested before the two ids are
\* compared.
validateTransferRequestAmountFirst(r) ==
    IF r.source_account_id = EmptyID THEN ValidationError("source_account_id")
    ELSE IF r.destination_account_id = EmptyID THEN ValidationError("destination_account_id")
    ELSE IF r.amount <= 0 THEN ErrInvalidAmount
    ELSE IF r.source_account_id = r.destination_account_id THEN ErrSameAccount
    ELSE NoErr

validateTransferRequest(r) ==
    IF r.source_account_id = EmptyID THEN ValidationError("source_account_id")
    ELSE IF r.destination_account_id = EmptyID THEN ValidationError("destination_account_id")
    ELSE IF r.source_account_id = r.destination_account_id THEN ErrSameAccount
    ELSE IF r.amount <= 0 THEN ErrInvalidAmount
    ELSE NoErr

\* Variant of the lock test: the lock covers the whole table accounts.
LockedByOtherTable(p, id) == \E q \in Workers \ {p} : tx[q].locks # {}

\* The row locks other units of work hold.
LockedByOther(p, id) == \E q \in Workers \ {p} : id \in tx[q].locks

\* Variant of the lock order: the destination row is locked first.
FirstLockedDestination(r) == r.destination_account_id

\* The account Transfer locks first and the one it locks second.
FirstLocked(r) == r.source_account_id
SecondLocked(r) == r.destination_account_id

\* Variants of the sufficiency check: the operands swapped, and <= for <.
InsufficientBalanceSwapped(balance, amount) == amount < balance
InsufficientBalanceOrEqual(balance, amount) == balance <= amount

\* sourceAccount.Balance < req.Amount
InsufficientBalance(balance, amount) == balance < amount

\* UPDATE accounts SET balance = $1 WHERE id = $2, inside the unit of work.
UpdateAccountBalance(t, id, newBalance) ==
    [t EXCEPT !.writes = {w \in t.writes : w.id # id}
                          \cup {[id |-> id, balance |-> ToNumeric(newBalance)]}]

\* uuid.New(): an id no other transaction record carries.
NewUUID(t) == t.uow

\* What a commit of unit of work t leaves in table accounts.
CommittedAccounts(t) ==
    [a \in AccountIDs |->
        IF \E w \in t.writes : w.id = a
        THEN [exists |-> TRUE,
              balance |-> (CHOOSE w \in t.writes : w.id = a).balance,
              xmin |-> t.uow]
        ELSE accounts[a]]

CommittedRowUpdates(t) ==
    {[uow |-> t.uow, id |-> w.id, old |-> accounts[w.id].balance, new |-> w.balance] :
        w \in t.writes}

\* Transfer returns (nil, err): the deferred tx.Rollback() ends the unit of
\* work, dropping its locks and everything it staged.
EndedTx(t, how) == [NoTx EXCEPT !.state = how, !.uow = t.uow]

\* Variant of the error return: the deferred call commits the unit of work
\* instead of rolling it back.
ReturnErrorCommits(p, err) ==
    /\ pc' = [pc EXCEPT ![p] = "done"]
    /\ tx' = [tx EXCEPT ![p] = IF tx[p].state = "none" THEN NoTx
                                ELSE EndedTx(tx[p], "rolled back")]
    /\ result' = [result EXCEPT ![p] = [transaction |-> NoTransaction, err |-> err]]
    /\ accounts' = CommittedAccounts(tx[p])
    /\ transactions' = transactions \cup tx[p].inserted
    /\ audit_logs' = audit_logs \cup tx[p].audits
    /\ rowUpdates' = rowUpdates \cup CommittedRowUpdates(tx[p])

\* Variant of the error return: no deferred rollback, the unit of work is
\* left as it is.
ReturnErrorWithoutRollback(p, err) ==
    /\ pc' = [pc EXCEPT ![p] = "done"]
    /\ tx' = tx
    /\ result' = [result EXCEPT ![p] = [transaction |-> NoTransaction, err |-> err]]
    /\ UNCHANGED store

ReturnError(p, err) ==
    /\ pc' = [pc EXCEPT ![p] = "done"]
    /\ tx' = [tx EXCEPT ![p] = IF tx[p].state = "none" THEN NoTx
                                ELSE EndedTx(tx[p], "rolled back")]
    /\ result' = [result EXCEPT ![p] = [transaction |-> NoTransaction, err |-> err]]
    /\ UNCHANGED store

\* -------------------------------------------------------- transfer: steps
Requests == [source_account_id : RequestIDs, destination_account_id : RequestIDs,
             amount : Amounts]

newSourceBalance(p) == sourceAccount[p].balance - req[p].amount
\* Variant of the destination's new balance: the amount is taken off, as
\* for the source.
newDestinationBalanceDebited(p) == destinationAccount[p].balance - req[p].amount
newDestinationBalance(p) == destinationAccount[p].balance + req[p].amount

\* Transfer is called: validateTransferRequest runs before anything else.
Transfer(p, r) ==
    /\ pc[p] = "idle"
    /\ req' = [req EXCEPT ![p] = r]
    /\ LET verr == validateTransferRequest(r) IN
       IF verr # NoErr
       THEN /\ pc' = [pc EXCEPT ![p] = "done"]
            /\ result' = [result EXCEPT ![p] = [transaction |-> NoTransaction, err |-> verr]]
       ELSE /\ pc' = [pc EXCEPT ![p] = "begin"]
            /\ UNCHANGED result
    /\ UNCHANGED <<store, nextUow, tx, locals>>
    /\ UNCHANGED <<createResult, getResult, creating>>

\* s.db.BeginTx(ctx, LevelSerializable).  The unit of work reads from the
\* snapshot of its first statement; nothing happens between BEGIN and that
\* statement, so the snapshot is taken here.
BeginTx(p) ==
    /\ pc[p] = "begin"
    /\ nextUow < MaxTransfers
    /\ nextUow' = nextUow + 1
    /\ tx' = [tx EXCEPT ![p] = [NoTx EXCEPT !.state = "open", !.uow = nextUow + 1,
                                            !.snap = accounts]]
    /\ pc' = [pc EXCEPT ![p] = "lockFirst"]
    /\ UNCHANGED <<store, req, locals, result>>
    /\ UNCHANGED <<createResult, getResult, creating>>

\* GetAccountByIDForUpdate: SELECT ... FOR UPDATE.  A row the snapshot does
\* not hold gives sql.ErrNoRows; a row locked by another unit of work makes
\* the statement wait; a row another unit of work changed and committed
\* after the snapshot fails the statement (serialization failure).
ForUpdateReady(p, id) == tx[p].snap[id].exists => ~LockedByOther(p, id)
ForUpdateOutcome(p, id) ==
    IF ~tx[p].snap[id].exists THEN "no rows"
    ELSE IF accounts[id].xmin # tx[p].snap[id].xmin THEN "serialization failure"
    ELSE "locked"

\* Lock and get source account (Transfer's first locked read).
LockSource(p) ==
    /\ pc[p] = "lockFirst"
    /\ LET id == FirstLocked(req[p])
           which == IF id = req[p].source_account_id
                    THEN "source account" ELSE "destination account"
           outcome == ForUpdateOutcome(p, id) IN
       /\ ForUpdateReady(p, id)
       /\ IF outcome = "no rows"
          THEN ReturnError(p, ErrAccountNotFound(which)) /\ UNCHANGED locals
          ELSE IF outcome = "serialization failure"
          THEN ReturnError(p, NewTransactionError("get " \o which, DriverError)) /\ UNCHANGED locals
          ELSE /\ tx' = [tx EXCEPT ![p].locks = @ \cup {id}]
               /\ pc' = [pc EXCEPT ![p] = "lockSecond"]
               /\ UNCHANGED store
               /\ IF id = req[p].source_account_id
                  THEN /\ sourceAccount' = [sourceAccount EXCEPT ![p] = tx[p].snap[id]]
                       /\ UNCHANGED destinationAccount
                  ELSE /\ destinationAccount' = [destinationAccount EXCEPT ![p] = tx[p].snap[id]]
                       /\ UNCHANGED sourceAccount
               /\ UNCHANGED <<result, transaction>>
    /\ UNCHANGED <<nextUow, req>>
    /\ UNCHANGED <<createResult, getResult, creating>>

\* Variant of the second locked read: a plain SELECT (GetAccountByID on the
\* unit of work), which reads the row and takes no lock.
LockDestinationWithoutLock(p) ==
    /\ pc[p] = "lockSecond"
    /\ LET id == SecondLocked(req[p])
           which == IF id = req[p].source_account_id
                    THEN "source account" ELSE "destination account" IN
       IF ~tx[p].snap[id].exists
       THEN ReturnError(p, ErrAccountNotFound(which)) /\ UNCHANGED locals
       ELSE /\ pc' = [pc EXCEPT ![p] = "check"]
            /\ UNCHANGED <<store, tx>>
            /\ IF id = req[p].source_account_id
               THEN /\ sourceAccount' = [sourceAccount EXCEPT ![p] = tx[p].snap[id]]
                    /\ UNCHANGED destinationAccount
               ELSE /\ destinationAccount' = [destinationAccount EXCEPT ![p] = tx[p].snap[id]]
                    /\ UNCHANGED sourceAccount
            /\ UNCHANGED <<result, transaction>>
    /\ UNCHANGED <<nextUow, req>>
    /\ UNCHANGED <<createResult, getResult, creating>>

\* Lock and get destination account (Transfer's second locked read).
LockDestination(p) ==
    /\ pc[p] = "lockSecond"
    /\ LET id == SecondLocked(req[p])
           which == IF id = req[p].source_account_id
                    THEN "source account" ELSE "destination account"
           outcome == ForUpdateOutcome(p, id) IN
       /\ ForUpdateReady(p, id)
       /\ IF outcome = "no rows"
          THEN ReturnError(p, ErrAccountNotFound(which)) /\ UNCHANGED locals
          ELSE IF outcome = "serialization failure"
          THEN ReturnError(p, NewTransactionError("get " \o which, DriverError)) /\ UNCHANGED locals
          ELSE /\ tx' = [tx EXCEPT ![p].locks = @ \cup {id}]
               /\ pc' = [pc EXCEPT ![p] = "check"]
               /\ UNCHANGED store
               /\ IF id = req[p].source_account_id
                  THEN /\ sourceAccount' = [sourceAccount EXCEPT ![p] = tx[p].snap[id]]
                       /\ UNCHANGED destinationAccount
                  ELSE /\ destinationAccount' = [destinationAccount EXCEPT ![p] = tx[p].snap[id]]
                       /\ UNCHANGED sourceAccount
               /\ UNCHANGED <<result, transaction>>
    /\ UNCHANGED <<nextUow, req>>
    /\ UNCHANGED <<createResult, getResult, creating>>

\* Check for sufficient balance.
CheckBalance(p) ==
    /\ pc[p] = "check"
    /\ IF InsufficientBalance(sourceAccount[p].balance, req[p].amount)
       THEN ReturnError(p, ErrInsufficentBalance)
       ELSE /\ pc' = [pc EXCEPT ![p] = "updateSource"]
            /\ UNCHANGED <<store, tx, result>>
    /\ UNCHANGED <<nextUow, req, locals>>
    /\ UNCHANGED <<createResult, getResult, creating>>

\* Variant of the source update: the UPDATE runs on the pool (s.db), outside
\* the unit of work, and is committed on its own.
UpdateSourceOutsideTx(p) ==
    /\ pc[p] = "updateSource"
    /\ balance_non_negative(ToNumeric(newSourceBalance(p)))
    /\ accounts' = [accounts EXCEPT ![req[p].source_account_id] =
                       [exists |-> TRUE, balance |-> ToNumeric(newSourceBalance(p)),
                        xmin |-> tx[p].uow]]
    /\ rowUpdates' = rowUpdates \cup
           {[uow |-> tx[p].uow, id |-> req[p].source_account_id,
             old |-> accounts[req[p].source_account_id].balance,
             new |-> ToNumeric(newSourceBalance(p))]}
    /\ pc' = [pc EXCEPT ![p] = "updateDestination"]
    /\ UNCHANGED <<transactions, audit_logs, nextUow, req, tx, locals, result>>
    /\ UNCHANGED <<createResult, getResult, creating>>

\* Update source account balance.  An UPDATE that matches no row makes
\* AccountRepository.UpdateAccountBalance return ErrAccountNotFound, which
\* Transfer wraps like every other failure of the statement.
UpdateSource(p) ==
    /\ pc[p] = "updateSource"
    /\ IF ~accounts[req[p].source_account_id].exists
       THEN ReturnError(p, NewTransactionError("update source account balance",
                                              "ErrAccountNotFound"))
       ELSE /\ balance_non_negative(ToNumeric(newSourceBalance(p)))
            /\ tx' = [tx EXCEPT ![p] =
                         UpdateAccountBalance(tx[p], req[p].source_account_id,
                                              newSourceBalance(p))]
            /\ pc' = [pc EXCEPT ![p] = "updateDestination"]
            /\ UNCHANGED <<store, result>>
    /\ UNCHANGED <<nextUow, req, locals>>
    /\ UNCHANGED <<createResult, getResult, creating>>

\* Update destination account balance.
UpdateDestination(p) ==
    /\ pc[p] = "updateDestination"
    /\ IF ~accounts[req[p].destination_account_id].exists
       THEN ReturnError(p, NewTransactionError("update destination account balance",
                                              "ErrAccountNotFound"))
       ELSE /\ balance_non_negative(ToNumeric(newDestinationBalance(p)))
            /\ tx' = [tx EXCEPT ![p] =
                         UpdateAccountBalance(tx[p], req[p].destination_account_id,
                                              newDestinationBalance(p))]
            /\ pc' = [pc EXCEPT ![p] = "createTransaction"]
            /\ UNCHANGED <<store, result>>
    /\ UNCHANGED <<nextUow, req, locals>>
    /\ UNCHANGED <<createResult, getResult, creating>>

\* The row PostgresTransactionRepository.Create inserts.
TransactionRow(t, uow) ==
    [id |-> t.id, source_account_id |-> t.source_account_id,
     destination_account_id |-> t.destination_account_id,
     amount |-> ToNumeric(t.amount), uow |-> uow]

\* Variant of the record insert: the INSERT runs on the pool (r.db), outside
\* the unit of work, and is committed on its own.
CreateTransactionOutsideTx(p) ==
    /\ pc[p] = "createTransaction"
    /\ LET t == [id |-> NewUUID(tx[p]),
                 source_account_id |-> req[p].source_account_id,
                 destination_account_id |-> req[p].destination_account_id,
                 amount |-> req[p].amount]
           row == TransactionRow(t, tx[p].uow) IN
       /\ amount_positive(row.amount)
       /\ transaction' = [transaction EXCEPT ![p] = t]
       /\ transactions' = transactions \cup {row}
    /\ pc' = [pc EXCEPT ![p] = "audit"]
    /\ UNCHANGED <<accounts, audit_logs, rowUpdates, nextUow, req, tx,
                   sourceAccount, destinationAccount, result>>
    /\ UNCHANGED <<createResult, getResult, creating>>

\* Variant of the record insert: the amount column keeps whole cents only,
\* cut off and not rounded, and table transactions has no constraint on it.
CreateTransactionTruncatedAmount(p) ==
    /\ pc[p] = "createTransaction"
    /\ LET t == [id |-> NewUUID(tx[p]),
                 source_account_id |-> req[p].source_account_id,
                 destination_account_id |-> req[p].destination_account_id,
                 amount |-> req[p].amount]
           row == [TransactionRow(t, tx[p].uow) EXCEPT
                      !.amount = (t.amount \div UnitsPerCent) * UnitsPerCent] IN
       /\ different_accounts(row.source_account_id, row.destination_account_id)
       /\ accounts[row.source_account_id].exists
       /\ accounts[row.destination_account_id].exists
       /\ \A other \in transactions : other.id # row.id
       /\ transaction' = [transaction EXCEPT ![p] = t]
       /\ tx' = [tx EXCEPT ![p].inserted = @ \cup {row}]
    /\ pc' = [pc EXCEPT ![p] = "audit"]
    /\ UNCHANGED <<store, nextUow, req, sourceAccount, destinationAccount, result>>
    /\ UNCHANGED <<createResult, getResult, creating>>

\* Create transaction record (transactionRepo.Create inside the unit of work).
CreateTransaction(p) ==
    /\ pc[p] = "createTransaction"
    /\ LET t == [id |-> NewUUID(tx[p]),
                 source_account_id |-> req[p].source_account_id,
                 destination_account_id |-> req[p].destination_account_id,
                 amount |-> req[p].amount]
           row == TransactionRow(t, tx[p].uow) IN
       /\ amount_positive(row.amount)
       /\ different_accounts(row.source_account_id, row.destination_account_id)
       /\ accounts[row.source_account_id].exists
       /\ accounts[row.destination_account_id].exists
       /\ \A other \in transactions : other.id # row.id
       /\ transaction' = [transaction EXCEPT ![p] = t]
       /\ tx' = [tx EXCEPT ![p].inserted = @ \cup {row}]
    /\ pc' = [pc EXCEPT ![p] = "audit"]
    /\ UNCHANGED <<store, nextUow, req, sourceAccount, destinationAccount, result>>
    /\ UNCHANGED <<createResult, getResult, creating>>

\* The three entries createTransferAuditLog writes, in its order.
TransferAuditLogs(p) ==
    <<AuditLog("account", transaction[p].source_account_id, "debit",
               AccountBalanceSnapshot(transaction[p].source_account_id,
                                      sourceAccount[p].balance),
               AccountBalanceSnapshot(transaction[p].source_account_id,
                                      newSourceBalance(p)),
               tx[p].uow),
      AuditLog("account", transaction[p].destination_account_id, "credit",
               AccountBalanceSnapshot(transaction[p].destination_account_id,
                                      destinationAccount[p].balance),
               AccountBalanceSnapshot(transaction[p].destination_account_id,
                                      newDestinationBalance(p)),
               tx[p].uow),
      AuditLog("transaction", transaction[p].id, "transfer", Null,
               txSnapshot(transaction[p]), tx[p].uow)>>

\* Variant of the audit step: only the two account entries are written, the
\* entry for the transaction itself is left out.
createTransferAuditLogAccountsOnly(p) ==
    /\ pc[p] = "audit"
    /\ tx' = [tx EXCEPT ![p].audits = {TransferAuditLogs(p)[i] : i \in 1..2}]
    /\ pc' = [pc EXCEPT ![p] = "commit"]
    /\ UNCHANGED <<store, nextUow, req, locals, result>>
    /\ UNCHANGED <<createResult, getResult, creating>>

\* Variant of the audit step: the three entries are written with
\* CreateWithDB, on the pool and not on the unit of work, so each is
\* committed as soon as it is inserted.
createTransferAuditLogWithDB(p) ==
    /\ pc[p] = "audit"
    /\ audit_logs' = audit_logs \cup {TransferAuditLogs(p)[i] : i \in 1..3}
    /\ pc' = [pc EXCEPT ![p] = "commit"]
    /\ UNCHANGED <<accounts, transactions, rowUpdates, nextUow, req, tx, locals, result>>
    /\ UNCHANGED <<createResult, getResult, creating>>

\* createTransferAuditLog with all three inserts succeeding.
createTransferAuditLog(p) ==
    /\ pc[p] = "audit"
    /\ tx' = [tx EXCEPT ![p].audits = {TransferAuditLogs(p)[i] : i \in 1..3}]
    /\ pc' = [pc EXCEPT ![p] = "commit"]
    /\ UNCHANGED <<store, nextUow, req, locals, result>>
    /\ UNCHANGED <<createResult, getResult, creating>>

\* createTransferAuditLog with insert number k+1 failing: it returns at once
\* and Transfer only logs the error.  The store has aborted the unit of
\* work: a failed statement leaves a PostgreSQL transaction in the failed
\* state, in which it can only be rolled back.
createTransferAuditLogFails(p) ==
    /\ pc[p] = "audit"
    /\ \E k \in 0..2 :
          tx' = [tx EXCEPT ![p].audits = {TransferAuditLogs(p)[i] : i \in 1..k},
                           ![p].state = "failed"]
    /\ pc' = [pc EXCEPT ![p] = "commit"]
    /\ UNCHANGED <<store, nextUow, req, locals, result>>
    /\ UNCHANGED <<createResult, getResult, creating>>

\* Variant of the commit: audit_logs keeps one entry for each entity id, the
\* entries of this unit of work replacing the earlier ones.
CommitReplacingAuditLogs(p) ==
    /\ pc[p] = "commit"
    /\ tx[p].state = "open"
    /\ accounts' = CommittedAccounts(tx[p])
    /\ transactions' = transactions \cup tx[p].inserted
    /\ audit_logs' = {l \in audit_logs : \A n \in tx[p].audits : n.entity_id # l.entity_id}
                         \cup tx[p].audits
    /\ rowUpdates' = rowUpdates \cup CommittedRowUpdates(tx[p])
    /\ tx' = [tx EXCEPT ![p] = EndedTx(tx[p], "committed")]
    /\ pc' = [pc EXCEPT ![p] = "done"]
    /\ result' = [result EXCEPT ![p] = [transaction |-> transaction[p], err |-> NoErr]]
    /\ UNCHANGED <<nextUow, req, locals>>
    /\ UNCHANGED <<createResult, getResult, creating>>

\* tx.Commit() succeeds: everything the unit of work staged becomes visible
\* at once and its locks are released.
Commit(p) ==
    /\ pc[p] = "commit"
    /\ tx[p].state = "open"
    /\ accounts' = CommittedAccounts(tx[p])
    /\ transactions' = transactions \cup tx[p].inserted
    /\ audit_logs' = audit_logs \cup tx[p].audits
    /\ rowUpdates' = rowUpdates \cup CommittedRowUpdates(tx[p])
    /\ tx' = [tx EXCEPT ![p] = EndedTx(tx[p], "committed")]
    /\ pc' = [pc EXCEPT ![p] = "done"]
    /\ result' = [result EXCEPT ![p] = [transaction |-> transaction[p], err |-> NoErr]]
    /\ UNCHANGED <<nextUow, req, locals>>
    /\ UNCHANGED <<createResult, getResult, creating>>

\* Variant of the failed commit: the error of tx.Commit() is dropped and the
\* transaction is returned as if it had been committed.
CommitFailedTransactionIgnored(p) ==
    /\ pc[p] = "commit"
    /\ tx[p].state = "failed"
    /\ pc' = [pc EXCEPT ![p] = "done"]
    /\ tx' = [tx EXCEPT ![p] = EndedTx(tx[p], "rolled back")]
    /\ result' = [result EXCEPT ![p] = [transaction |-> transaction[p], err |-> NoErr]]
    /\ UNCHANGED <<store, nextUow, req, locals>>
    /\ UNCHANGED <<createResult, getResult, creating>>

\* tx.Commit() on a unit of work the store has aborted: the driver rolls it
\* back and returns an error, which Transfer wraps as a commit failure.
CommitFailedTransaction(p) ==
    /\ pc[p] = "commit"
    /\ tx[p].state = "failed"
    /\ ReturnError(p, NewTransactionError("commit", DriverError))
    /\ UNCHANGED <<nextUow, req, locals>>
    /\ UNCHANGED <<createResult, getResult, creating>>

\* The operation name Transfer wraps a storage failure with.
OperationAt(p) ==
    CASE pc[p] = "begin" -> "begin"
      [] pc[p] = "lockFirst" -> "get source account"
      [] pc[p] = "lockSecond" -> "get destination account"
      [] pc[p] = "updateSource" -> "update source account balance"
      [] pc[p] = "updateDestination" -> "update destination account balance"
      [] pc[p] = "createTransaction" -> "create transaction record"
      [] pc[p] = "commit" -> "commit"

StorageSteps == {"begin", "lockFirst", "lockSecond", "updateSource", "updateDestination",
                 "createTransaction", "commit"}

\* Variant of the failing statement: the error of the driver is returned as
\* it is, not wrapped in a TransactionError.
StorageFailureUnwrapped(p) ==
    /\ pc[p] \in StorageSteps
    /\ ReturnError(p, [kind |-> "error", detail |-> "", cause |-> DriverError])
    /\ UNCHANGED <<nextUow, req, locals>>
    /\ UNCHANGED <<createResult, getResult, creating>>

\* A statement of the unit of work fails (the store refuses it, the
\* connection breaks, the request's context ends, the store picks the unit
\* of work as a deadlock victim): Transfer wraps the error and returns.  A
\* Commit that returns an error has committed nothing.
StorageFailure(p) ==
    /\ pc[p] \in StorageSteps
    /\ ReturnError(p, NewTransactionError(OperationAt(p), DriverError))
    /\ UNCHANGED <<nextUow, req, locals>>
    /\ UNCHANGED <<createResult, getResult, creating>>

\* The caller has the result; the worker takes the next request.
Return(p) ==
    /\ pc[p] = "done"
    /\ pc' = [pc EXCEPT ![p] = "idle"]
    /\ req' = [req EXCEPT ![p] = NoRequest]
    /\ result' = [result EXCEPT ![p] = NoResult]
    /\ sourceAccount' = [sourceAccount EXCEPT ![p] = NoRow]
    /\ destinationAccount' = [destinationAccount EXCEPT ![p] = NoRow]
    /\ transaction' = [transaction EXCEPT ![p] = NoTransaction]
    /\ tx' = [tx EXCEPT ![p] = NoTx]
    /\ UNCHANGED <<store, nextUow>>
    /\ UNCHANGED <<createResult, getResult, creating>>

\* ---------------------------------------------------------- HTTP boundary
\* errors.Is(err, target): err is the sentinel target, wraps it with %w, or
\* is a TransactionError whose Cause (Unwrap) is target.
Is(err, target) == err.kind = target \/ err.cause = target
IsNotFound(err) == Is(err, "ErrAccountNotFound")
IsInsufficientBalance(err) == Is(err, "ErrInsufficentBalance")
IsAlreadyExists(err) == Is(err, "ErrAccountAlreadyExists")
\* errors.As(err, &validationErr)
IsValidationError(err) == Is(err, "ValidationError")

\* The message field of ErrorResponse: empty, a fixed text, or err.Error(),
\* the text of an error, which spells out its operation and its cause.
EmptyMessage == [text |-> "", err |-> NoErr]
FixedMessage(text) == [text |-> text, err |-> NoErr]
ErrorMessage(err) == [text |-> "err.Error()", err |-> err]

NoData == [id |-> 0, balance |-> 0, source_account_id |-> EmptyID,
           destination_account_id |-> EmptyID, amount |-> 0]
\* utils.WriteError(w, status, errorMsg, details)
WriteError(status, errorMsg, details) ==
    [status |-> status, error |-> errorMsg, message |-> details, data |-> NoData]
\* utils.WriteJSON(w, status, data)
WriteJSON(status, data) ==
    [status |-> status, error |-> "", message |-> EmptyMessage, data |-> data]

StatusOK == 200
StatusCreated == 201
StatusBadRequest == 400
StatusNotFound == 404
StatusConflict == 409
StatusInternalServerError == 500

\* Variant of the transaction handler: the default case passes err.Error()
\* on as the message of the response.
TransactionHandlerServiceErrorVerbose(err) ==
    IF IsNotFound(err)
    THEN WriteError(StatusNotFound, "acount not found", ErrorMessage(err))
    ELSE IF IsInsufficientBalance(err)
    THEN WriteError(StatusBadRequest, "insufficient balance",
                    FixedMessage("source account does not have enough funds for txn"))
    ELSE IF IsValidationError(err)
    THEN WriteError(StatusBadRequest, "validation error", ErrorMessage(err))
    ELSE IF err = ErrSameAccount
    THEN WriteError(StatusBadRequest, "same source and destination account",
                    ErrorMessage(err))
    ELSE IF err = ErrInvalidAmount
    THEN WriteError(StatusBadRequest, "invalid amount", ErrorMessage(err))
    ELSE WriteError(StatusInternalServerError, "internal server error", ErrorMessage(err))

\* TransactionHandler.handleServiceError: the cases of its switch, in order;
\* ErrSameAccount and ErrInvalidAmount are compared with ==.
TransactionHandlerServiceError(err) ==
    IF IsNotFound(err)
    THEN WriteError(StatusNotFound, "acount not found", ErrorMessage(err))
    ELSE IF IsInsufficientBalance(err)
    THEN WriteError(StatusBadRequest, "insufficient balance",
                    FixedMessage("source account does not have enough funds for txn"))
    ELSE IF IsValidationError(err)
    THEN WriteError(StatusBadRequest, "validation error", ErrorMessage(err))
    ELSE IF err = ErrSameAccount
    THEN WriteError(StatusBadRequest, "same source and destination account",
                    ErrorMessage(err))
    ELSE IF err = ErrInvalidAmount
    THEN WriteError(StatusBadRequest, "invalid amount", ErrorMessage(err))
    ELSE WriteError(StatusInternalServerError, "internal server error", EmptyMessage)

\* TransactionHandler.CreateTransaction, after Transfer has returned res.
CreateTransactionResponse(res) ==
    IF res.err # NoErr
    THEN TransactionHandlerServiceError(res.err)
    ELSE WriteJSON(StatusCreated,
                   [id |-> res.transaction.id, balance |-> 0,
                    source_account_id |-> res.transaction.source_account_id,
                    destination_account_id |-> res.transaction.destination_account_id,
                    amount |-> res.transaction.amount])

\* Variant of the account handler: it has no case for ErrAccountAlreadyExists.
AccountHandlerServiceErrorNoConflict(err) ==
    IF IsNotFound(err)
    THEN WriteError(StatusNotFound, "account not found", EmptyMessage)
    ELSE IF IsValidationError(err)
    THEN WriteError(StatusBadRequest, "validation error", ErrorMessage(err))
    ELSE IF err = ErrInvalidAccountID
    THEN WriteError(StatusBadRequest, "invalid account ID", EmptyMessage)
    ELSE IF err = ErrNegativeBalance
    THEN WriteError(StatusBadRequest, "negative balance not allowed", EmptyMessage)
    ELSE WriteError(StatusInternalServerError, "internal server error", EmptyMessage)

\* AccountHandler.handleServiceError: the cases of its switch, in order;
\* ErrInvalidAccountID and ErrNegativeBalance are compared with ==.
AccountHandlerServiceError(err) ==
    IF IsNotFound(err)
    THEN WriteError(StatusNotFound, "account not found", EmptyMessage)
    ELSE IF IsAlreadyExists(err)
    THEN WriteError(StatusConflict, "account already exists", EmptyMessage)
    ELSE IF IsValidationError(err)
    THEN WriteError(StatusBadRequest, "validation error", ErrorMessage(err))
    ELSE IF err = ErrInvalidAccountID
    THEN WriteError(StatusBadRequest, "invalid account ID", EmptyMessage)
    ELSE IF err = ErrNegativeBalance
    THEN WriteError(StatusBadRequest, "negative balance not allowed", EmptyMessage)
    ELSE WriteError(StatusInternalServerError, "internal server error", EmptyMessage)

\* AccountHandler.CreateAccount, after the service has returned res for id.
CreateAccountResponse(id, res) ==
    IF res.err # NoErr
    THEN AccountHandlerServiceError(res.err)
    ELSE WriteJSON(StatusCreated, [NoData EXCEPT !.id = id, !.balance = res.balance])

\* AccountHandler.GetAccount: the handler refuses an empty id itself, and
\* otherwise answers with what the service returned for it.
GetAccountResponse(res) ==
    IF res.id = EmptyID
    THEN WriteError(StatusBadRequest, "id is required", EmptyMessage)
    ELSE IF res.err # NoErr
    THEN AccountHandlerServiceError(res.err)
    ELSE WriteJSON(StatusOK, [NoData EXCEPT !.id = res.id, !.balance = res.balance])

Next ==
    \/ \E id \in RequestIDs, b \in InitialBalances : CreateAccount(id, b, TRUE)
    \/ \E p \in Workers, r \in Requests : Transfer(p, r)
    \/ \E p \in Workers : BeginTx(p)
    \/ \E p \in Workers : LockSource(p)
    \/ \E p \in Workers : LockDestination(p)
    \/ \E p \in Workers : CheckBalance(p)
    \/ \E p \in Workers : UpdateSource(p)
    \/ \E p \in Workers : UpdateDestination(p)
    \/ \E p \in Workers : CreateTransaction(p)
    \/ \E p \in Workers : createTransferAuditLog(p)
    \/ \E p \in Workers : createTransferAuditLogFails(p)
    \/ \E p \in Workers : Commit(p)
    \/ \E p \in Workers : CommitFailedTransaction(p)
    \/ \E p \in Workers : StorageFailure(p)
    \/ \E p \in Workers : Return(p)

Spec == Init /\ [][Next]_vars

\* ------------------------------------------- transfers over disjoint pairs
\* Four accounts have been created with one cent each; worker 1 transfers
\* between accounts 1 and 2 only, worker 2 between accounts 3 and 4 only.
PairOf(p) == IF p = 1 THEN {1, 2} ELSE {3, 4}
DisjointRequests(p) ==
    {r \in [source_account_id : PairOf(p), destination_account_id : PairOf(p),
             amount : 1..MaxAmount] : r.source_account_id # r.destination_account_id}

InitDisjoint ==
    /\ accounts = [a \in AccountIDs |->
           [exists |-> TRUE, balance |-> ToNumeric(UnitsPerCent - 1), xmin |-> 0]]
    /\ transactions = {}
    /\ audit_logs = {createAccoutAuditLog(a, UnitsPerCent - 1) : a \in AccountIDs}
    /\ rowUpdates = {}
    /\ nextUow = 0
    /\ pc = [p \in Workers |-> "idle"]
    /\ req = [p \in Workers |-> NoRequest]
    /\ tx = [p \in Workers |-> NoTx]
    /\ sourceAccount = [p \in Workers |-> NoRow]
    /\ destinationAccount = [p \in Workers |-> NoRow]
    /\ transaction = [p \in Workers |-> NoTransaction]
    /\ result = [p \in Workers |-> NoResult]
    /\ createResult = [id \in CreateIDs |->
           IF id \in AccountIDs THEN CreateResult(UnitsPerCent - 1, NoErr)
           ELSE NoCreateResult]
    /\ getResult = NoGetResult
    /\ creating = [c \in Workers |-> NoCreating]

NextDisjoint ==
    \/ \E p \in Workers : \E r \in DisjointRequests(p) : Transfer(p, r)
    \/ \E p \in Workers : BeginTx(p)
    \/ \E p \in Workers : LockSource(p)
    \/ \E p \in Workers : LockDestination(p)
    \/ \E p \in Workers : CheckBalance(p)
    \/ \E p \in Workers : UpdateSource(p)
    \/ \E p \in Workers : UpdateDestination(p)
    \/ \E p \in Workers : CreateTransaction(p)
    \/ \E p \in Workers : createTransferAuditLog(p)
    \/ \E p \in Workers : createTransferAuditLogFails(p)
    \/ \E p \in Workers : Commit(p)
    \/ \E p \in Workers : CommitFailedTransaction(p)
    \/ \E p \in Workers : StorageFailure(p)
    \/ \E p \in Workers : Return(p)

SpecDisjoint == InitDisjoint /\ [][NextDisjoint]_vars

\* --------------------------------------------------- the account manager
\* Every outcome of CreateAccount, for every request, next to the transfers
\* of one worker, whose requests pass validation and whose statements and
\* audit inserts succeed.
AccountManagerWorkers == {1}
ValidRequests == {r \in Requests : validateTransferRequest(r) = NoErr}

NextAccounts ==
    \/ \E id \in RequestIDs, b \in InitialBalances, auditOk \in BOOLEAN :
          CreateAccount(id, b, auditOk)
    \/ \E id \in RequestIDs, b \in InitialBalances : CreateAccountRejected(id, b)
    \/ \E id \in RequestIDs, b \in InitialBalances : CreateAccountFails(id, b)
    \/ \E p \in AccountManagerWorkers, r \in ValidRequests : Transfer(p, r)
    \/ \E p \in AccountManagerWorkers : BeginTx(p)
    \/ \E p \in AccountManagerWorkers : LockSource(p)
    \/ \E p \in AccountManagerWorkers : LockDestination(p)
    \/ \E p \in AccountManagerWorkers : CheckBalance(p)
    \/ \E p \in AccountManagerWorkers : UpdateSource(p)
    \/ \E p \in AccountManagerWorkers : UpdateDestination(p)
    \/ \E p \in AccountManagerWorkers : CreateTransaction(p)
    \/ \E p \in AccountManagerWorkers : createTransferAuditLog(p)
    \/ \E p \in AccountManagerWorkers : Commit(p)
    \/ \E p \in AccountManagerWorkers : Return(p)

SpecAccounts == Init /\ [][NextAccounts]_vars

\* ------------------------------------------------------ the account lookup
\* GetAccount for every id a caller sends, next to the account creations
\* that succeed and the transfers of one worker.
NextGet ==
    \/ \E id \in RequestIDs, b \in InitialBalances : CreateAccount(id, b, TRUE)
    \/ \E id \in RequestIDs : GetAccount(id)
    \/ \E id \in RequestIDs : GetAccountFails(id)
    \/ \E p \in AccountManagerWorkers, r \in ValidRequests : Transfer(p, r)
    \/ \E p \in AccountManagerWorkers : BeginTx(p)
    \/ \E p \in AccountManagerWorkers : LockSource(p)
    \/ \E p \in AccountManagerWorkers : LockDestination(p)
    \/ \E p \in AccountManagerWorkers : CheckBalance(p)
    \/ \E p \in AccountManagerWorkers : UpdateSource(p)
    \/ \E p \in AccountManagerWorkers : UpdateDestination(p)
    \/ \E p \in AccountManagerWorkers : CreateTransaction(p)
    \/ \E p \in AccountManagerWorkers : createTransferAuditLog(p)
    \/ \E p \in AccountManagerWorkers : Commit(p)
    \/ \E p \in AccountManagerWorkers : Return(p)

SpecGet == Init /\ [][NextGet]_vars

\* ------------------------------------------------ the scripted scenario
\* The requests of test_endpoints.ps1 and test_simple.ps1, sent one after
\* the other to a store that refuses none of their statements: the two
\* account creations, the transfer of 250, the duplicate creation and the
\* transfer of 10000, with lookups of the two accounts in between.
\* An amount of the scripts, a number of currency units, in units of the model.
Money(x) == x * 100 * UnitsPerCent
acc001 == 1
acc002 == 2
TransferOf250 == [source_account_id |-> acc001, destination_account_id |-> acc002,
                  amount |-> Money(250)]
TransferOf10000 == [source_account_id |-> acc001, destination_account_id |-> acc002,
                    amount |-> Money(10000)]
AllIdle == \A q \in Workers : pc[q] = "idle"

NextScenario ==
    \/ \E auditOk \in BOOLEAN :
          /\ AllIdle
          /\ CreateAccount(acc001, Money(1000), auditOk)
    \/ \E auditOk \in BOOLEAN :
          /\ AllIdle /\ accounts[acc001].exists
          /\ CreateAccount(acc002, Money(500), auditOk)
    \/ \E id \in {acc001, acc002} :
          /\ AllIdle /\ accounts[acc001].exists /\ accounts[acc002].exists
          /\ GetAccount(id)
    \/ \E p \in Workers :
          /\ AllIdle /\ accounts[acc001].exists /\ accounts[acc002].exists
          /\ transactions = {}
          /\ Transfer(p, TransferOf250)
    \/ /\ AllIdle /\ transactions # {}
       /\ CreateAccountRejected(acc001, Money(500))
    \/ \E p \in Workers :
          /\ AllIdle /\ transactions # {}
          /\ Transfer(p, TransferOf10000)
    \/ \E p \in Workers : BeginTx(p)
    \/ \E p \in Workers : LockSource(p)
    \/ \E p \in Workers : LockDestination(p)
    \/ \E p \in Workers : CheckBalance(p)
    \/ \E p \in Workers : UpdateSource(p)
    \/ \E p \in Workers : UpdateDestination(p)
    \/ \E p \in Workers : CreateTransaction(p)
    \/ \E p \in Workers : createTransferAuditLog(p)
    \/ \E p \in Workers : Commit(p)
    \/ \E p \in Workers : Return(p)

SpecScenario == Init /\ [][NextScenario]_vars

\* ------------------------------------------------------ the HTTP boundary
\* The requests that reach the services through the two handlers: every
\* account creation, accepted or rejected, the lookups of accounts that do
\* not exist (SpecGet has the others), and the transfers of one worker for
\* every request, valid or not, on a store that refuses no statement.
NextBoundary ==
    \/ \E id \in RequestIDs, b \in InitialBalances : CreateAccount(id, b, TRUE)
    \/ \E id \in RequestIDs, b \in InitialBalances : CreateAccountRejected(id, b)
    \/ \E id \in RequestIDs \ {EmptyID} : ~accounts[id].exists /\ GetAccount(id)
    \/ \E p \in AccountManagerWorkers, r \in Requests : Transfer(p, r)
    \/ \E p \in AccountManagerWorkers : BeginTx(p)
    \/ \E p \in AccountManagerWorkers : LockSource(p)
    \/ \E p \in AccountManagerWorkers : LockDestination(p)
    \/ \E p \in AccountManagerWorkers : CheckBalance(p)
    \/ \E p \in AccountManagerWorkers : UpdateSource(p)
    \/ \E p \in AccountManagerWorkers : UpdateDestination(p)
    \/ \E p \in AccountManagerWorkers : CreateTransaction(p)
    \/ \E p \in AccountManagerWorkers : createTransferAuditLog(p)
    \/ \E p \in AccountManagerWorkers : Commit(p)
    \/ \E p \in AccountManagerWorkers : Return(p)

SpecBoundary == Init /\ [][NextBoundary]_vars

\* ------------------------------------------- account creations in parallel
\* Two workers running CreateAccount at the same time, for every id and
\* every initial balance a request can carry.
NextCreate ==
    \/ \E c \in Workers, id \in RequestIDs, b \in InitialBalances :
          CreateAccountCall(c, id, b)
    \/ \E c \in Workers : InsertAccount(c)
    \/ \E c \in Workers : InsertAccountFails(c)
    \/ \E c \in Workers, auditOk \in BOOLEAN : CreateAccountAudit(c, auditOk)
    \/ \E c \in Workers : CreateAccountReturn(c)

SpecCreate == Init /\ [][NextCreate]_vars

\* ================================================================ claims
\* What the store holds, committed, of unit of work u.
UpdatesOf(u) == {x \in rowUpdates : x.uow = u}
RecordsOf(u) == {t \in transactions : t.uow = u}
AuditsOf(u) == {l \in audit_logs : l.uow = u}
NothingCommittedOf(u) == UpdatesOf(u) = {} /\ RecordsOf(u) = {} /\ AuditsOf(u) = {}

\* Worker p's step is the successful commit of its transfer.
CommitStep(p) == pc[p] = "commit" /\ pc'[p] = "done" /\ result'[p].err = NoErr
\* Worker p's step makes its Transfer return an error.
ErrorStep(p) == pc[p] # "done" /\ pc'[p] = "done" /\ result'[p].err # NoErr

PastCheck == {"updateSource", "updateDestination", "createTransaction", "audit", "commit"}

\* C1: every committed account balance is >= 0 in every reachable state; so
\* is every balance a unit of work has staged, and the new source balance
\* of every transfer that has passed the sufficiency check.
BalanceNeverNegative ==
    /\ \A a \in AccountIDs : accounts[a].balance >= 0
    /\ \A p \in Workers : \A w \in tx[p].writes : w.balance >= 0
    /\ \A p \in Workers : pc[p] \in PastCheck => newSourceBalance(p) >= 0

\* A committed debit has emptied an account that held money.
C1_Witness == \E x \in rowUpdates : x.old > 0 /\ x.new = 0

\* C2: once accounts 1 and 2 both exist, no step changes
\* balance(1) + balance(2), whatever transfers 1->2 and 2->1 run.
PairSumPreserved ==
    [][(accounts[1].exists /\ accounts[2].exists)
        => accounts'[1].balance + accounts'[2].balance
           = accounts[1].balance + accounts[2].balance]_vars

\* Worker p holds its first lock and waits for a row that q has locked.
WaitsFor(p, q) ==
    /\ pc[p] = "lockSecond"
    /\ tx[p].locks # {}
    /\ SecondLocked(req[p]) \in tx[q].locks

\* C3: no state is reachable in which two transfers each hold one account
\* lock and wait for the lock the other holds.
NoLockCycle == \A p, q \in Workers : p # q => ~(WaitsFor(p, q) /\ WaitsFor(q, p))

\* C4: two transfers over the same pair of accounts lock the same account
\* first, whichever is the source: no two transfers over one pair hold
\* different first locks.
SameFirstLock ==
    \A p, q \in Workers :
        (/\ pc[p] = "lockSecond" /\ pc[q] = "lockSecond"
         /\ {req[p].source_account_id, req[p].destination_account_id}
            = {req[q].source_account_id, req[q].destination_account_id})
        => tx[p].locks = tx[q].locks

\* C5: a transfer is all-or-nothing for every other unit of work: nothing
\* of a unit of work that is still open, or that ended in a rollback, is
\* committed, and a unit of work whose writes are committed has committed
\* both balance updates and its one record together.
AllOrNothing ==
    /\ \A p \in Workers :
          tx[p].state \in {"open", "failed", "rolled back"} => NothingCommittedOf(tx[p].uow)
    /\ \A u \in 1..nextUow :
          \/ NothingCommittedOf(u)
          \/ /\ Cardinality(RecordsOf(u)) = 1
             /\ \A t \in RecordsOf(u) :
                   {x.id : x \in UpdatesOf(u)}
                   = {t.source_account_id, t.destination_account_id}
    /\ \A a \in AccountIDs : accounts[a].xmin # 0 => RecordsOf(accounts[a].xmin) # {}

\* A transfer failed at commit, after it had staged both updates and its record.
C5_Witness ==
    \E p \in Workers : pc[p] = "done" /\ result[p].err = NewTransactionError("commit", DriverError)

\* C6: a committed transaction record exists if and only if the update of
\* its source (a debit) and of its destination (a credit) are committed by
\* the same unit of work.
RecordIffBothUpdates ==
    /\ \A t \in transactions :
          /\ \E x \in UpdatesOf(t.uow) : x.id = t.source_account_id /\ x.new <= x.old
          /\ \E y \in UpdatesOf(t.uow) : y.id = t.destination_account_id /\ y.new >= y.old
    /\ \A x \in rowUpdates :
          \E t \in RecordsOf(x.uow) : x.id \in {t.source_account_id, t.destination_account_id}

\* One transfer is committed and another failed after staging its updates.
C6_Witness ==
    /\ transactions # {}
    /\ \E p \in Workers :
          pc[p] = "done" /\ result[p].err = NewTransactionError("create transaction record", DriverError)

\* C7: the successful commit of a transfer of amount a lowers the source by
\* exactly a, raises the destination by exactly a, and adds exactly one
\* record, with the request's source, destination and amount and the id of
\* the returned transaction.
ExactTransfer ==
    [][\A p \in Workers : CommitStep(p) =>
          LET s == req[p].source_account_id
              d == req[p].destination_account_id IN
          /\ accounts'[s].balance = accounts[s].balance - req[p].amount
          /\ accounts'[d].balance = accounts[d].balance + req[p].amount
          /\ \E t \in transactions' \ transactions :
                /\ transactions' \ transactions = {t}
                /\ t.source_account_id = s /\ t.destination_account_id = d
                /\ t.amount = req[p].amount
                /\ t.id = result'[p].transaction.id]_vars

\* C8: the successful commit of a transfer leaves balance(S) + balance(D)
\* as it was and changes no other account.
Conservation ==
    [][\A p \in Workers : CommitStep(p) =>
          LET s == req[p].source_account_id
              d == req[p].destination_account_id IN
          /\ accounts'[s].balance + accounts'[d].balance
             = accounts[s].balance + accounts[d].balance
          /\ \A a \in AccountIDs \ {s, d} : accounts'[a] = accounts[a]]_vars

\* C9: the step by which a transfer returns an error changes no account and
\* no transaction record, and nothing of its unit of work is committed.
FailedTransferChangesNothing ==
    [][\A p \in Workers : ErrorStep(p) =>
          /\ accounts' = accounts
          /\ transactions' = transactions
          /\ tx'[p].state = "rolled back" =>
                /\ \A x \in rowUpdates' : x.uow # tx'[p].uow
                /\ \A t \in transactions' : t.uow # tx'[p].uow]_vars

\* A transfer failed after its source update was staged.
C9_Witness ==
    \E p \in Workers :
        /\ pc[p] = "done"
        /\ result[p].err = NewTransactionError("update destination account balance", DriverError)

\* C10: the sufficiency check fails with InsufficientBalance exactly when
\* the source balance read under the lock is less than the amount; that
\* error comes from no other step, with no update staged, and rolls the unit
\* of work back; a transfer of the whole source balance commits and leaves
\* the source at 0.
InsufficientBalanceExactly ==
    [][\A p \in Workers :
          /\ (pc[p] = "check" /\ pc'[p] # "check") =>
                (result'[p].err = ErrInsufficentBalance
                 <=> sourceAccount[p].balance < req[p].amount)
          /\ (result'[p].err = ErrInsufficentBalance /\ result[p].err # ErrInsufficentBalance) =>
                /\ pc[p] = "check"
                /\ tx[p].writes = {}
                /\ tx'[p].state = "rolled back" /\ tx'[p].locks = {}
                /\ UNCHANGED store
          /\ (CommitStep(p) /\ req[p].amount = sourceAccount[p].balance) =>
                accounts'[req[p].source_account_id].balance = 0]_vars

\* One transfer took the whole balance of its source and committed, and
\* another was refused for insufficient balance.
C10_Witness ==
    /\ \E x \in rowUpdates : x.old > 0 /\ x.new = 0
    /\ \E p \in Workers : pc[p] = "done" /\ result[p].err = ErrInsufficentBalance

\* C11: a transfer that reaches the locked read of a source or destination
\* that does not exist can only end, with NotFound naming that account or
\* with a storage failure of that read; the step that returns NotFound
\* comes from the locked read of the account it names, rolls the unit of
\* work back, leaves it no lock and changes nothing in the store.
NotFoundRollsBack ==
    [][\A p \in Workers :
          LET s == req[p].source_account_id
              d == req[p].destination_account_id IN
          /\ (pc[p] = "lockFirst" /\ pc'[p] # "lockFirst" /\ ~accounts[s].exists) =>
                /\ pc'[p] = "done"
                /\ result'[p].err \in {ErrAccountNotFound("source account"),
                                       NewTransactionError("get source account", DriverError)}
          /\ (pc[p] = "lockSecond" /\ pc'[p] # "lockSecond" /\ ~accounts[d].exists) =>
                /\ pc'[p] = "done"
                /\ result'[p].err \in {ErrAccountNotFound("destination account"),
                                       NewTransactionError("get destination account", DriverError)}
          /\ (result'[p].err.kind = "ErrAccountNotFound"
              /\ result[p].err.kind # "ErrAccountNotFound") =>
                /\ \/ /\ result'[p].err.detail = "source account"
                      /\ pc[p] = "lockFirst" /\ ~tx[p].snap[s].exists
                      /\ tx[p].locks = {}
                   \/ /\ result'[p].err.detail = "destination account"
                      /\ pc[p] = "lockSecond" /\ ~tx[p].snap[d].exists
                      /\ tx[p].locks = {s}
                /\ result'[p].transaction = NoTransaction
                /\ tx[p].state = "open" /\ tx'[p].state = "rolled back"
                /\ tx'[p].locks = {} /\ tx'[p].writes = {}
                /\ UNCHANGED store]_vars

\* A transfer held the lock of its source, found no destination and returned
\* NotFound for it, rolled back.
C11_Witness ==
    \E p \in Workers :
        /\ pc[p] = "done"
        /\ result[p].err = ErrAccountNotFound("destination account")
        /\ accounts[req[p].source_account_id].exists
        /\ tx[p].state = "rolled back" /\ tx[p].locks = {}

\* C12: a transfer request with an empty source or destination id, with
\* source = destination, or with amount <= 0 is rejected by the step that
\* receives it, with the error of the first failing test; that step opens no
\* unit of work and reads, locks and writes nothing.  Every other request
\* goes on to open its unit of work, so a unit of work only ever belongs to
\* a request that passed validation.
ValidationBeforeUnitOfWork ==
    [][\A p \in Workers :
          /\ (pc[p] = "idle" /\ pc'[p] # "idle") =>
                LET r == req'[p]
                    emptyId == r.source_account_id = EmptyID
                               \/ r.destination_account_id = EmptyID
                    same == r.source_account_id = r.destination_account_id IN
                IF emptyId \/ same \/ r.amount <= 0
                THEN /\ pc'[p] = "done"
                     /\ result'[p].transaction = NoTransaction
                     /\ result'[p].err.kind =
                           (IF emptyId THEN "ValidationError"
                            ELSE IF same THEN "ErrSameAccount" ELSE "ErrInvalidAmount")
                     /\ tx'[p] = NoTx /\ nextUow' = nextUow
                     /\ UNCHANGED <<store, locals>>
                ELSE pc'[p] = "begin" /\ result'[p] = NoResult
          /\ (tx'[p].state # "none" \/ pc'[p] \notin {"idle", "done"}) =>
                /\ req'[p].source_account_id # EmptyID
                /\ req'[p].destination_account_id # EmptyID
                /\ req'[p].source_account_id # req'[p].destination_account_id
                /\ req'[p].amount > 0]_vars

\* A same-account transfer between existing accounts was rejected before any
\* unit of work had ever been opened.
C12_Witness ==
    \E p \in Workers :
        /\ pc[p] = "done" /\ result[p].err = ErrSameAccount
        /\ accounts[req[p].source_account_id].exists
        /\ req[p].amount > 0
        /\ tx[p] = NoTx /\ nextUow = 0

\* C13: when an audit insert of a transfer fails, after the balance updates
\* and the record are staged, the transfer still commits: the step that ends
\* it returns the transaction with no error, and its balance updates and its
\* record are committed.
AuditFailureStillCommits ==
    [][\A p \in Workers :
          (pc[p] = "commit" /\ pc'[p] = "done" /\ Cardinality(tx[p].audits) < 3) =>
              /\ result'[p].err = NoErr
              /\ result'[p].transaction = transaction[p]
              /\ \E t \in transactions' : t.id = transaction[p].id
              /\ \A w \in tx[p].writes : accounts'[w.id].balance = w.balance]_vars

\* C14: a step changes a row of accounts only by creating it or by
\* committing a transfer's unit of work that is open and holds that row's
\* lock, which no other unit of work holds; and a unit of work stages a
\* balance write only while open and holding that row's lock exclusively.
BalanceWrittenUnderLock ==
    [][/\ \A a \in AccountIDs : accounts'[a] # accounts[a] =>
             \/ ~accounts[a].exists /\ accounts'[a].exists /\ accounts'[a].xmin = 0
             \/ \E p \in Workers :
                   /\ pc[p] = "commit" /\ tx[p].state = "open"
                   /\ tx'[p].state = "committed"
                   /\ a \in tx[p].locks
                   /\ \A q \in Workers \ {p} : a \notin tx[q].locks
                   /\ accounts'[a].xmin = tx[p].uow
                   /\ \E w \in tx[p].writes : w.id = a /\ w.balance = accounts'[a].balance
       /\ \A p \in Workers : \A w \in tx'[p].writes \ tx[p].writes :
             /\ tx[p].state = "open" /\ tx'[p].state = "open"
             /\ w.id \in tx[p].locks
             /\ \A q \in Workers \ {p} : w.id \notin tx[q].locks]_vars

\* A transfer is about to commit both balance writes under both locks while
\* another transfer waits for the lock of one of the two accounts.
C14_Witness ==
    \E p, q \in Workers :
        /\ p # q
        /\ pc[p] = "commit" /\ tx[p].state = "open"
        /\ {w.id : w \in tx[p].writes} = tx[p].locks
        /\ Cardinality(tx[p].locks) = 2
        /\ pc[q] = "lockFirst" /\ FirstLocked(req[q]) \in tx[p].locks

\* Two transfers that share an account serialize on its lock: whenever a
\* transfer is past its locked reads, the rows it read are the committed
\* rows, and they still are when it commits.
ReadsSerialized ==
    \A p \in Workers :
        (tx[p].state \in {"open", "failed"} /\ pc[p] \in {"check"} \cup PastCheck) =>
            /\ sourceAccount[p] = accounts[req[p].source_account_id]
            /\ destinationAccount[p] = accounts[req[p].destination_account_id]

\* C15: no update is lost between two transfers that share an account: when
\* a transfer of amount a2 commits a debit of a source whose last committed
\* update is the debit of an earlier transfer, recorded with amount a1, from
\* balance b, the source is left at b - (a1 + a2).
NoLostUpdate ==
    [][\A p \in Workers : CommitStep(p) =>
          LET s == req[p].source_account_id IN
          \A t1 \in transactions : \A x1 \in UpdatesOf(t1.uow) :
              (t1.source_account_id = s /\ x1.id = s /\ accounts[s].xmin = t1.uow) =>
                  accounts'[s].balance = x1.old - (t1.amount + req[p].amount)]_vars

\* C16: two transfers over disjoint pairs of accounts never block each
\* other: while a transfer over {3, 4} is in flight at any point, a transfer
\* over {1, 2} that is at a locked read can take it at once and obtains the
\* lock, and one that is at its commit can commit; and the other way round.
DisjointNeverBlock ==
    \A p \in Workers :
        /\ pc[p] = "lockFirst" => ENABLED (LockSource(p) /\ pc'[p] = "lockSecond")
        /\ pc[p] = "lockSecond" => ENABLED (LockDestination(p) /\ pc'[p] = "check")
        /\ (pc[p] = "commit" /\ tx[p].state = "open") => ENABLED Commit(p)
        /\ \A q \in Workers \ {p} : tx[p].locks \cap tx[q].locks = {}

\* One transfer is at its second locked read, holding its first lock, while
\* the transfer over the other pair holds both of its locks, its updates
\* staged.
C16_Witness ==
    \E p, q \in Workers :
        /\ p # q
        /\ pc[p] = "lockSecond" /\ Cardinality(tx[p].locks) = 1
        /\ pc[q] = "commit" /\ Cardinality(tx[q].locks) = 2 /\ tx[q].writes # {}
        /\ {req[p].source_account_id, req[p].destination_account_id}
           \cap {req[q].source_account_id, req[q].destination_account_id} = {}

\* C17: a deadline that expires after validation and before the commit makes
\* the statement in progress fail.  The step by which a transfer returns
\* that failure returns no transaction, leaves its unit of work rolled back
\* with no lock and nothing staged, and changes nothing in the store, so no
\* balance update, record or audit entry of that unit of work is committed;
\* a unit of work that an expiry during the audit inserts has aborted ends
\* the same way at its commit.
DeadlineExpiryRollsBack ==
    [][\A p \in Workers :
          /\ (ErrorStep(p) /\ result'[p].err.kind = "TransactionError") =>
                /\ pc[p] \in StorageSteps
                /\ result'[p].err.detail = OperationAt(p)
                /\ result'[p].transaction = NoTransaction
                /\ tx'[p].state = (IF pc[p] = "begin" THEN "none" ELSE "rolled back")
                /\ tx'[p].locks = {} /\ tx'[p].writes = {}
                /\ tx'[p].inserted = {} /\ tx'[p].audits = {}
                /\ UNCHANGED store
                /\ pc[p] # "begin" =>
                      /\ \A x \in rowUpdates' : x.uow # tx[p].uow
                      /\ \A t \in transactions' : t.uow # tx[p].uow
                      /\ \A l \in audit_logs' : l.uow # tx[p].uow
          /\ (tx[p].state = "failed" /\ pc'[p] # pc[p]) =>
                /\ pc[p] = "commit" /\ pc'[p] = "done"
                /\ result'[p].err = NewTransactionError("commit", DriverError)]_vars

\* A transfer failed at its second locked read while holding the lock of
\* its source; the lock was released, and another transfer holds it now.
C17_Witness ==
    \E p, q \in Workers :
        /\ p # q
        /\ pc[p] = "done"
        /\ result[p].err = NewTransactionError("get destination account", DriverError)
        /\ accounts[req[p].destination_account_id].exists
        /\ tx[p].state = "rolled back"
        /\ req[p].source_account_id \in tx[q].locks

\* C18: a CreateAccount call for an id that is taken creates nothing: no
\* call for it can succeed, a request that passes validation can only be
\* refused with AlreadyExists (or fail in the store), and no outcome of a
\* call for it changes the store, so the stored balance stays the one of the
\* first creation as transfers have changed it; AlreadyExists is returned
\* for a taken id only.
DuplicateCreateRejected ==
    \A id \in RequestIDs \ {EmptyID} :
        /\ accounts[id].exists =>
              \A b \in InitialBalances :
                  /\ ~ENABLED CreateAccount(id, b, TRUE)
                  /\ ~ENABLED CreateAccount(id, b, FALSE)
                  /\ ~ENABLED (CreateAccountRejected(id, b) /\ ~UNCHANGED store)
                  /\ ~ENABLED (CreateAccountFails(id, b) /\ ~UNCHANGED store)
                  /\ b >= 0 =>
                        /\ ENABLED (/\ CreateAccountRejected(id, b)
                                    /\ createResult'[id].err = ErrAccountAlreadyExists)
                        /\ ~ENABLED (/\ CreateAccountRejected(id, b)
                                     /\ createResult'[id].err # ErrAccountAlreadyExists)
        /\ createResult[id].err = ErrAccountAlreadyExists => accounts[id].exists

\* A second creation of an account was refused with AlreadyExists after a
\* committed transfer had changed the account's balance.
C18_Witness ==
    \E id \in RequestIDs \ {EmptyID} :
        /\ createResult[id].err = ErrAccountAlreadyExists
        /\ accounts[id].exists
        /\ \E x \in rowUpdates : x.id = id /\ x.new # x.old

\* C19: a CreateAccount call with an empty id or a negative initial balance
\* has one outcome, whatever the store holds: the error of
\* validateCreateRequest (ErrInvalidAccountID, else ErrNegativeBalance), with
\* the store unchanged, so no account and no audit entry is created.  No
\* other call gets either error, no call returned an account with the empty
\* id or a negative balance, and a call with initial balance 0 for a free id
\* creates the account with balance 0.
CreateValidatedBeforeStorage ==
    /\ \A id \in RequestIDs, b \in InitialBalances :
          IF id = EmptyID \/ b < 0
          THEN /\ ~ENABLED CreateAccount(id, b, TRUE)
               /\ ~ENABLED CreateAccount(id, b, FALSE)
               /\ ~ENABLED CreateAccountFails(id, b)
               /\ ENABLED (/\ CreateAccountRejected(id, b)
                           /\ createResult'[id].err =
                                 (IF id = EmptyID THEN ErrInvalidAccountID
                                  ELSE ErrNegativeBalance)
                           /\ UNCHANGED store)
               /\ ~ENABLED (/\ CreateAccountRejected(id, b)
                            /\ ~(/\ createResult'[id].err =
                                       (IF id = EmptyID THEN ErrInvalidAccountID
                                        ELSE ErrNegativeBalance)
                                 /\ UNCHANGED store))
          ELSE /\ ~ENABLED (/\ CreateAccountRejected(id, b)
                            /\ createResult'[id].err
                                  \in {ErrInvalidAccountID, ErrNegativeBalance})
               /\ (b = 0 /\ ~accounts[id].exists) =>
                     ENABLED (/\ CreateAccount(id, b, TRUE)
                              /\ accounts'[id] = [exists |-> TRUE, balance |-> 0, xmin |-> 0]
                              /\ createResult'[id] = CreateResult(0, NoErr))
    /\ \A id \in CreateIDs :
          (createResult[id].called /\ createResult[id].err = NoErr) =>
              id # EmptyID /\ createResult[id].balance >= 0

\* A call with the empty id and a call with a negative balance were refused,
\* the latter creating no account, and a call with balance 0 created one.
C19_Witness ==
    /\ createResult[EmptyID].err = ErrInvalidAccountID
    /\ \E id \in RequestIDs \ {EmptyID} :
          createResult[id].err = ErrNegativeBalance /\ ~accounts[id].exists
    /\ \E id \in RequestIDs \ {EmptyID} :
          /\ createResult[id] = CreateResult(0, NoErr)
          /\ accounts[id].exists /\ accounts[id].balance = 0

\* C20: the step that persists an account returns the account with no
\* error whether or not its CREATE audit entry is written; the row holds the
\* initial balance as the INSERT stored it; a stored account stays stored;
\* and for every free id and valid request the creation whose audit write
\* fails can happen, leaving audit_logs as it was.
CreateSurvivesAuditFailure ==
    [][\A id \in RequestIDs \ {EmptyID} :
          /\ (~accounts[id].exists /\ accounts'[id].exists) =>
                /\ createResult'[id].called /\ createResult'[id].err = NoErr
                /\ accounts'[id].balance = ToNumeric(createResult'[id].balance)
                /\ audit_logs' \in
                      {audit_logs,
                       audit_logs \cup {createAccoutAuditLog(id, createResult'[id].balance)}}
          /\ accounts[id].exists => accounts'[id].exists
          /\ \A b \in InitialBalances : (b >= 0 /\ ~accounts[id].exists) =>
                ENABLED (/\ CreateAccount(id, b, FALSE)
                         /\ audit_logs' = audit_logs
                         /\ accounts'[id].exists
                         /\ createResult'[id] = CreateResult(b, NoErr))]_vars

\* An account is stored and its creation returned it successfully, but the
\* audit trail holds no CREATE entry for it.
C20_Witness ==
    \E id \in RequestIDs \ {EmptyID} :
        /\ accounts[id].exists
        /\ createResult[id].called /\ createResult[id].err = NoErr
        /\ \A l \in audit_logs : ~(l.action = "CREATE" /\ l.entity_id = id)

\* C21: get_account fails with InvalidInput for the empty id and with NotFound
\* for an id that was never created; for every other id it returns the
\* balance that is committed at that moment, also while a transfer holds the
\* row locked with another balance staged, unless the SELECT itself fails.
\* The call changes no account, transaction record or audit entry and takes
\* no row lock.
GetAccountReadsCommitted ==
    [][getResult' # getResult =>
          /\ getResult'.called
          /\ UNCHANGED <<store, transfers, createResult>>
          /\ getResult'.id = EmptyID => getResult'.err = ErrInvalidAccountID
          /\ (getResult'.id # EmptyID /\ ~accounts[getResult'.id].exists) =>
                /\ getResult'.err.kind \in {"ErrAccountNotFound", "error"}
                /\ getResult'.err.kind = "error" => getResult'.err = GetAccountError
          /\ (getResult'.id # EmptyID /\ accounts[getResult'.id].exists) =>
                /\ getResult'.err \in {NoErr, GetAccountError}
                /\ getResult'.err = NoErr =>
                      getResult'.balance = accounts[getResult'.id].balance
          /\ getResult'.err.kind = "ErrAccountNotFound" =>
                ~accounts[getResult'.id].exists]_vars

\* A lookup answered with the committed balance while a transfer holds the
\* row locked and has another balance staged for it.
C21_Witness ==
    /\ getResult.called /\ getResult.err = NoErr
    /\ \E p \in Workers :
          /\ getResult.id \in tx[p].locks
          /\ \E w \in tx[p].writes : w.id = getResult.id /\ w.balance # getResult.balance
          /\ accounts[getResult.id].balance = getResult.balance

\* C22: a transfer that succeeds adds exactly three audit entries, and they
\* become visible together with its balance updates and its record, as part
\* of its unit of work: a debit entry on the source account and a credit
\* entry on the destination account, each with a snapshot of the balance
\* before and of the balance after, and one transfer entry whose entity id is
\* the id of the transaction record and which has no old value.  (The letter
\* case of the stored words is the subject of C23.)
TransferAddsThreeAuditEntries ==
    [][\A p \in Workers :
          CommitStep(p) =>
              LET added == audit_logs' \ audit_logs
                  t == result'[p].transaction
                  s == t.source_account_id
                  d == t.destination_account_id IN
              /\ Cardinality(added) = 3
              /\ \A l \in added : l.uow = tx[p].uow
              /\ transactions' \ transactions = RecordsOf(tx[p].uow)'
              /\ \E l \in added :
                    /\ l.action \in {"debit", "DEBIT"} /\ l.entity_id = s
                    /\ l.old_value = AccountBalanceSnapshot(s, accounts[s].balance)
                    /\ l.new_value = AccountBalanceSnapshot(s, accounts[s].balance - t.amount)
              /\ \E l \in added :
                    /\ l.action \in {"credit", "CREDIT"} /\ l.entity_id = d
                    /\ l.old_value = AccountBalanceSnapshot(d, accounts[d].balance)
                    /\ l.new_value = AccountBalanceSnapshot(d, accounts[d].balance + t.amount)
              /\ \E l \in added :
                    /\ l.action \in {"transfer", "TRANSFER"} /\ l.entity_id = t.id
                    /\ l.old_value = Null
                    /\ l.new_value = txSnapshot(t)
                    /\ \E r \in transactions' \ transactions : r.id = t.id]_vars

\* A committed transfer with its three audit entries in the store.
C22_Witness ==
    \E p \in Workers :
        /\ pc[p] = "done" /\ result[p].err = NoErr
        /\ Cardinality(AuditsOf(tx[p].uow)) = 3
        /\ \E l \in AuditsOf(tx[p].uow) :
              l.entity_id = result[p].transaction.id /\ l.old_value = Null

\* C23: every audit entry in the store, written by an account creation or by
\* a transfer, has an entity_type among ACCOUNT and TRANSACTION and an action
\* among CREATE, DEBIT, CREDIT and TRANSFER.
AuditVocabulary ==
    \A l \in audit_logs :
        /\ l.entity_type \in {"ACCOUNT", "TRANSACTION"}
        /\ l.action \in {"CREATE", "DEBIT", "CREDIT", "TRANSFER"}

\* C24: the ledger is append-only.  No step deletes an account row or gives
\* it another id, no step deletes or changes a transaction record, no step
\* deletes or changes an audit entry: every row of the three tables that
\* exists before a step exists after it, records and entries with every
\* field as it was, so the three sets only grow.
AppendOnly ==
    [][/\ \A a \in AccountIDs : accounts[a].exists => accounts'[a].exists
       /\ transactions \subseteq transactions'
       /\ audit_logs \subseteq audit_logs'
       /\ Cardinality({a \in AccountIDs : accounts[a].exists})
              <= Cardinality({a \in AccountIDs : accounts'[a].exists})]_vars

\* Two transfers committed one after the other: the record and the audit
\* entries of the first are in the store next to those of the second and to
\* the entries of the account creations.
C24_Witness ==
    /\ Cardinality(transactions) = 2
    /\ Cardinality({l \in audit_logs : l.action = "CREATE"}) = 2
    /\ Cardinality({l \in audit_logs : l.action # "CREATE"}) = 6

\* The step of the transfer protocol a worker is at, as C25 names it.
FailingStep(p) ==
    CASE pc[p] = "begin" -> "begin"
      [] pc[p] = "lockFirst" -> "get source account"
      [] pc[p] = "lockSecond" -> "get destination account"
      [] pc[p] = "updateSource" -> "update source account balance"
      [] pc[p] = "updateDestination" -> "update destination account balance"
      [] pc[p] = "createTransaction" -> "create transaction record"
      [] pc[p] = "commit" -> "commit"
      [] OTHER -> "none"

\* C25: whenever Transfer returns an error from beginning the unit of work,
\* from a locked read (other than for a missing row), from a balance update,
\* from the insert of the record or from the commit, the error is a
\* PersistenceFailure (TransactionError) that names that step and carries
\* the cause the store reported; and a commit that made nothing durable is
\* returned as such an error, never as a success.
StorageFailureIsPersistenceFailure ==
    [][\A p \in Workers :
          /\ (/\ ErrorStep(p)
              /\ FailingStep(p) # "none"
              /\ result'[p].err.kind # "ErrAccountNotFound") =>
                /\ result'[p].err.kind = "TransactionError"
                /\ result'[p].err.detail = FailingStep(p)
                /\ result'[p].err.cause # ""
                /\ result'[p].transaction = NoTransaction
          /\ result'[p].err.kind = "ErrAccountNotFound" =>
                pc'[p] = pc[p] \/ pc[p] \in {"lockFirst", "lockSecond"}
          /\ (pc[p] = "commit" /\ pc'[p] = "done"
              /\ RecordsOf(tx[p].uow)' = {}) =>
                /\ result'[p].err = NewTransactionError("commit", DriverError)
                /\ result'[p].transaction = NoTransaction]_vars

\* A transfer that failed at the update of the destination balance, after
\* its source update was staged, returned the failure naming that step.
C25_Witness ==
    \E p \in Workers :
        /\ pc[p] = "done"
        /\ result[p].err.kind = "TransactionError"
        /\ result[p].err.detail = "update destination account balance"
        /\ result[p].err.cause = DriverError
        /\ \E q \in Workers :
              q # p /\ pc[q] = "done"
              /\ result[q].err = NewTransactionError("begin", DriverError)

\* C26: whenever Transfer returns a PersistenceFailure (a TransactionError,
\* of whichever step), the create-transfer handler answers with status 500,
\* the error text "internal server error" and an empty message: the response
\* carries neither the name of the operation nor the cause.
PersistenceFailureIsOpaque ==
    \A p \in Workers :
        (pc[p] = "done" /\ result[p].err.kind = "TransactionError") =>
            LET response == CreateTransactionResponse(result[p]) IN
            /\ response.status = 500
            /\ response.error = "internal server error"
            /\ response.message.text = ""
            /\ response.message.err = NoErr
            /\ response.data = NoData

\* The handler answers 500 for a transfer whose record insert failed while
\* another answers 500 for a failed locked read.
C26_Witness ==
    \E p, q \in Workers :
        /\ pc[p] = "done" /\ pc[q] = "done"
        /\ result[p].err = NewTransactionError("create transaction record", DriverError)
        /\ result[q].err = NewTransactionError("get source account", DriverError)
        /\ CreateTransactionResponse(result[p]).status = 500
        /\ CreateTransactionResponse(result[q]).status = 500

\* C27: from the empty ledger, create_account(acc001, 1000), then
\* create_account(acc002, 500), then transfer(acc001, acc002, 250): the
\* transfer returns a transaction of amount 250 from acc001 to acc002 and
\* leaves acc001 at 750 and acc002 at 750, which is what a lookup then
\* returns; a following transfer(acc001, acc002, 10000) fails with
\* InsufficientBalance at its balance check and leaves both at 750, with the
\* one transaction record of the first transfer in the store.
ScenarioOutcome ==
    [][/\ \A p \in Workers :
             /\ (CommitStep(p) /\ req[p] = TransferOf250) =>
                   /\ accounts[acc001].balance = Money(1000)
                   /\ accounts[acc002].balance = Money(500)
                   /\ accounts'[acc001].balance = Money(750)
                   /\ accounts'[acc002].balance = Money(750)
                   /\ result'[p].transaction.amount = Money(250)
                   /\ result'[p].transaction.source_account_id = acc001
                   /\ result'[p].transaction.destination_account_id = acc002
             /\ (req[p] = TransferOf250 /\ pc[p] # "done" /\ pc'[p] = "done") =>
                   CommitStep(p)
             /\ (req[p] = TransferOf10000 /\ pc[p] # "done" /\ pc'[p] = "done") =>
                   /\ pc[p] = "check"
                   /\ result'[p].err = ErrInsufficentBalance
                   /\ result'[p].transaction = NoTransaction
                   /\ accounts'[acc001].balance = Money(750)
                   /\ accounts'[acc002].balance = Money(750)
                   /\ Cardinality(transactions') = 1
       /\ transactions # {} =>
             /\ accounts[acc001].balance = Money(750)
             /\ accounts[acc002].balance = Money(750)
             /\ UNCHANGED <<accounts, transactions>>
       /\ (getResult' # getResult /\ transactions # {}) =>
             getResult' = GetResult(getResult'.id, Money(750), NoErr)]_vars

\* The second transfer has failed with InsufficientBalance; both accounts
\* hold 750 and the record of the first transfer, of 250, is the only one.
C27_Witness ==
    \E p \in Workers :
        /\ pc[p] = "done" /\ req[p] = TransferOf10000
        /\ result[p].err = ErrInsufficentBalance
        /\ accounts[acc001].balance = Money(750)
        /\ accounts[acc002].balance = Money(750)
        /\ \E t \in transactions : t.amount = Money(250)
        /\ Cardinality(transactions) = 1
        /\ getResult = GetResult(acc002, Money(750), NoErr)

\* C28: the four tests of the validation run in a fixed order and the first
\* that fails decides the error: an empty source id gives InvalidInput for
\* the source whatever the rest of the request is; otherwise an empty
\* destination id gives InvalidInput for the destination; otherwise equal ids
\* give SameAccount, also when the amount is not positive; otherwise an
\* amount <= 0 gives InvalidAmount.  A request with both ids empty gets
\* InvalidInput, not SameAccount.
ValidationOrder ==
    \A p \in Workers :
        pc[p] = "done" =>
            LET r == req[p] IN
            /\ r.source_account_id = EmptyID =>
                  result[p].err = ValidationError("source_account_id")
            /\ (r.source_account_id # EmptyID /\ r.destination_account_id = EmptyID) =>
                  result[p].err = ValidationError("destination_account_id")
            /\ (r.source_account_id # EmptyID
                /\ r.source_account_id = r.destination_account_id) =>
                  result[p].err = ErrSameAccount
            /\ (r.source_account_id # EmptyID /\ r.destination_account_id # EmptyID
                /\ r.source_account_id # r.destination_account_id /\ r.amount <= 0) =>
                  result[p].err = ErrInvalidAmount
            /\ result[p].err.kind \in {"ValidationError", "ErrSameAccount",
                                       "ErrInvalidAmount"} =>
                  tx[p] = NoTx

\* A request with equal ids and amount 0 was answered with SameAccount, and
\* one with both ids empty and amount 0 with InvalidInput for the source.
C28_Witness ==
    \E p, q \in Workers :
        /\ pc[p] = "done" /\ pc[q] = "done"
        /\ req[p].source_account_id # EmptyID
        /\ req[p].source_account_id = req[p].destination_account_id
        /\ req[p].amount = 0
        /\ result[p].err = ErrSameAccount
        /\ req[q].source_account_id = EmptyID /\ req[q].destination_account_id = EmptyID
        /\ req[q].amount = 0
        /\ result[q].err = ValidationError("source_account_id")

\* The steps of a transfer in the order C29 gives them.
StepOrder == <<"begin", "lockFirst", "lockSecond", "check", "updateSource",
               "updateDestination", "createTransaction", "audit", "commit">>
Accounts(writes) == {w.id : w \in writes}

\* C29: a transfer takes its steps in this order: begin the (serializable)
\* unit of work, lock the source account, lock the destination account,
\* verify the balance, update the source balance, update the destination
\* balance, record the transaction, create the audit entries, commit; it can
\* leave the sequence only by returning.  No balance update is staged before
\* both locks are held and the balance check has passed.
TransferStepOrder ==
    [][\A p \in Workers :
          LET s == req[p].source_account_id
              d == req[p].destination_account_id IN
          /\ (pc'[p] # pc[p] /\ pc[p] \notin {"idle", "done"} /\ pc'[p] # "done") =>
                \E i \in 1..8 : pc[p] = StepOrder[i] /\ pc'[p] = StepOrder[i + 1]
          /\ (pc[p] = "idle" /\ pc'[p] # "idle") => pc'[p] \in {"begin", "done"}
          /\ (pc[p] = "done" /\ pc'[p] # "done") => pc'[p] = "idle"
          /\ pc[p] \in {"idle", "begin"} => tx[p].state = "none"
          /\ pc[p] = "lockFirst" => tx[p].state = "open" /\ tx[p].locks = {}
          /\ pc[p] = "lockSecond" => tx[p].locks = {s}
          /\ pc[p] \in {"lockFirst", "lockSecond", "check"} =>
                tx[p].writes = {} /\ tx[p].inserted = {} /\ tx[p].audits = {}
          /\ tx[p].writes # {} =>
                /\ tx[p].locks = {s, d}
                /\ pc[p] \in {"updateDestination", "createTransaction", "audit", "commit"}
                /\ sourceAccount[p].balance >= req[p].amount
          /\ pc[p] = "updateSource" => tx[p].locks = {s, d} /\ tx[p].writes = {}
          /\ pc[p] = "updateDestination" =>
                Accounts(tx[p].writes) = {s} /\ tx[p].inserted = {}
          /\ pc[p] = "createTransaction" =>
                Accounts(tx[p].writes) = {s, d} /\ tx[p].inserted = {}
          /\ pc[p] = "audit" => Cardinality(tx[p].inserted) = 1 /\ tx[p].audits = {}
          /\ pc[p] = "commit" =>
                /\ Cardinality(tx[p].inserted) = 1
                /\ Accounts(tx[p].writes) = {s, d}
                /\ NothingCommittedOf(tx[p].uow)
          /\ CommitStep(p) => pc[p] = "commit" /\ tx[p].state = "open"]_vars

\* Two transfers at different steps: one has staged both updates and its
\* record and is about to write its audit entries, the other has begun its
\* unit of work and waits for the lock of its source.
C29_Witness ==
    \E p, q \in Workers :
        /\ pc[p] = "audit" /\ Cardinality(tx[p].writes) = 2
        /\ Cardinality(tx[p].inserted) = 1
        /\ pc[q] = "lockFirst" /\ tx[q].locks = {}
        /\ req[q].source_account_id \in tx[p].locks

\* C30: at the HTTP boundary a rejected duplicate account creation is
\* answered with 409; a lookup of an account that does not exist, and a
\* transfer whose source or destination does not exist, with 404; a creation
\* with an empty id or a negative initial balance, and a transfer refused for
\* an empty id, equal ids, an invalid amount or an insufficient balance, with
\* 400; an account creation and a transfer that succeed with 201.  This holds
\* for every form in which the services return these errors.
HTTPStatusMapping ==
    /\ \A id \in CreateIDs :
          createResult[id].called =>
              LET kind == createResult[id].err.kind
                  status == CreateAccountResponse(id, createResult[id]).status IN
              /\ kind = "ErrAccountAlreadyExists" => status = 409
              /\ kind \in {"ErrInvalidAccountID", "ErrNegativeBalance"} => status = 400
              /\ kind = "nil" => status = 201
    /\ \A p \in Workers :
          pc[p] = "done" =>
              LET kind == result[p].err.kind
                  status == CreateTransactionResponse(result[p]).status IN
              /\ kind = "ErrAccountNotFound" => status = 404
              /\ kind \in {"ValidationError", "ErrSameAccount", "ErrInvalidAmount",
                           "ErrInsufficentBalance"} => status = 400
              /\ kind = "nil" => status = 201
    /\ \A id \in RequestIDs \ {EmptyID} :
          ~accounts[id].exists =>
              GetAccountResponse(GetAccountResult(id)).status = 404
    /\ (getResult.called /\ getResult.err.kind = "ErrAccountNotFound") =>
          GetAccountResponse(getResult).status = 404

\* The handlers have answered 409 to a duplicate creation, 400 to a creation
\* with a negative balance, and 404 both to a transfer whose destination
\* does not exist and to a lookup of that account.
C30_Witness ==
    /\ \E id \in CreateIDs :
          /\ createResult[id].err = ErrAccountAlreadyExists
          /\ CreateAccountResponse(id, createResult[id]).status = 409
    /\ \E id \in CreateIDs :
          /\ createResult[id].err = ErrNegativeBalance
          /\ CreateAccountResponse(id, createResult[id]).status = 400
    /\ \E p \in Workers :
          /\ pc[p] = "done"
          /\ result[p].err = ErrAccountNotFound("destination account")
          /\ CreateTransactionResponse(result[p]).status = 404
          /\ getResult = GetResult(req[p].destination_account_id, 0, ErrAccountNotFound(""))
          /\ GetAccountResponse(getResult).status = 404

\* C31: every committed transaction record has a source and a destination
\* that are not empty, that are rows of table accounts and that differ, and
\* an amount > 0; and no two committed records have the same id.
TransactionRecordsWellFormed ==
    /\ \A t \in transactions :
          /\ t.source_account_id # EmptyID /\ t.destination_account_id # EmptyID
          /\ t.source_account_id \in AccountIDs /\ accounts[t.source_account_id].exists
          /\ t.destination_account_id \in AccountIDs
          /\ accounts[t.destination_account_id].exists
          /\ t.source_account_id # t.destination_account_id
          /\ t.amount > 0
    /\ \A t, u \in transactions : t.id = u.id => t = u

\* Two committed records, with different ids, one of them for a requested
\* amount below one cent.
C31_Witness ==
    \E t, u \in transactions :
        /\ t.id # u.id
        /\ t.amount > 0 /\ u.amount > 0
        /\ \E x \in rowUpdates : x.uow = t.uow /\ x.old = x.new

\* The sum of the amounts of a set of transaction records.
RECURSIVE SumAmounts(_)
SumAmounts(S) ==
    IF S = {} THEN 0
    ELSE LET t == CHOOSE x \in S : TRUE IN t.amount + SumAmounts(S \ {t})

\* C32: in every committed state the balance of every account is the
\* balance it was created with, plus the amounts of the committed records
\* whose destination it is, minus the amounts of the committed records whose
\* source it is.
LedgerConsistency ==
    \A a \in AccountIDs :
        accounts[a].exists =>
            accounts[a].balance =
                ToNumeric(createResult[a].balance)
                + SumAmounts({t \in transactions : t.destination_account_id = a})
                - SumAmounts({t \in transactions : t.source_account_id = a})

\* C33: every way Transfer returns ends its unit of work.  A worker that has
\* returned (or has no call running) holds no row lock and has nothing
\* staged; its unit of work is committed if it returned a transaction, was
\* never begun if the request failed validation or BeginTx failed, and is
\* rolled back for every other error.  So when no transfer is in flight no
\* account is locked.
EveryExitEndsUnitOfWork ==
    /\ \A p \in Workers :
          pc[p] \in {"idle", "done"} =>
              /\ tx[p].locks = {} /\ tx[p].writes = {}
              /\ tx[p].inserted = {} /\ tx[p].audits = {}
              /\ tx[p].state \in {"none", "committed", "rolled back"}
              /\ pc[p] = "done" =>
                    tx[p].state =
                        (IF result[p].err = NoErr THEN "committed"
                         ELSE IF result[p].err.kind \in {"ValidationError", "ErrSameAccount",
                                                         "ErrInvalidAmount"}
                                 \/ result[p].err = NewTransactionError("begin", DriverError)
                         THEN "none"
                         ELSE "rolled back")
    /\ (\A p \in Workers : pc[p] \in {"idle", "done"}) =>
          \A a \in AccountIDs : \A q \in Workers : a \notin tx[q].locks

\* Two transfers have returned, one with its transaction and one with
\* InsufficientBalance after holding both locks; no account is locked.
C33_Witness ==
    \E p, q \in Workers :
        /\ pc[p] = "done" /\ result[p].err = NoErr /\ tx[p].state = "committed"
        /\ pc[q] = "done" /\ result[q].err = ErrInsufficentBalance
        /\ tx[q].state = "rolled back"
        /\ \A a \in AccountIDs : \A w \in Workers : a \notin tx[w].locks

\* C34: the audit entries of a transfer share the fate of its unit of work.
\* A debit, credit or transfer entry is in the store only if the record and
\* both balance updates of the same unit of work are, so a transfer that
\* failed or was rolled back leaves none; and every committed entry about a
\* transaction carries the id of a committed transaction record.
AuditSharesFate ==
    /\ \A l \in audit_logs :
          l.action \notin {"CREATE"} =>
              /\ Cardinality(RecordsOf(l.uow)) = 1
              /\ Cardinality(UpdatesOf(l.uow)) = 2
              /\ l.entity_type \in {"transaction", "TRANSACTION"} =>
                    \E t \in RecordsOf(l.uow) : t.id = l.entity_id
    /\ \A p \in Workers :
          (pc[p] = "done" /\ result[p].err # NoErr) => AuditsOf(tx[p].uow) \subseteq
              {l \in audit_logs : l.action = "CREATE"}

\* One transfer is committed with its audit entries; another staged its
\* entries, failed at the commit, and left none.
C34_Witness ==
    \E p, q \in Workers :
        /\ pc[p] = "done" /\ result[p].err = NoErr
        /\ Cardinality(AuditsOf(tx[p].uow)) = 3
        /\ pc[q] = "done" /\ result[q].err = NewTransactionError("commit", DriverError)
        /\ tx[q].uow # 0 /\ tx[q].uow # tx[p].uow
        /\ AuditsOf(tx[q].uow) = {}

\* A CreateAccount call whose INSERT has succeeded.
Created(c) ==
    creating[c].pc = "audit" \/ (creating[c].pc = "done" /\ creating[c].err = NoErr)

\* C35: of the CreateAccount calls for one id that run at the same time,
\* with equal or different initial balances, exactly one succeeds: the INSERT
\* of a call succeeds when the id has no row (unless the statement fails for
\* another reason) and is refused with AlreadyExists when it has one, so two
\* calls in flight for one id never both succeed.  The stored balance is the
\* one of the call that succeeded, and stays so whatever the other calls ask.
ConcurrentCreatesOneWinner ==
    [][/\ \A c, d \in Workers :
             (c # d /\ creating[c].id = creating[d].id) => ~(Created(c) /\ Created(d))
       /\ \A c \in Workers :
             /\ Created(c) =>
                   /\ accounts[creating[c].id].exists
                   /\ accounts[creating[c].id].balance =
                          ToNumeric(creating[c].initial_balance)
             /\ (creating[c].pc = "insert" /\ creating'[c].pc # "insert") =>
                   IF accounts[creating[c].id].exists
                   THEN /\ creating'[c].pc = "done"
                        /\ creating'[c].err \in {ErrAccountAlreadyExists, CreateAccountError}
                        /\ UNCHANGED store
                   ELSE \/ /\ creating'[c].pc = "audit"
                           /\ accounts'[creating[c].id].exists
                           /\ \A a \in AccountIDs \ {creating[c].id} :
                                 accounts'[a] = accounts[a]
                        \/ /\ creating'[c].pc = "done"
                           /\ creating'[c].err = CreateAccountError
                           /\ UNCHANGED store
       /\ \A a \in AccountIDs :
             accounts[a].exists => accounts'[a] = accounts[a]]_vars

\* Two calls for one id with different initial balances ran at the same
\* time: one has created the account with its balance, the other got
\* AlreadyExists.
C35_Witness ==
    \E c, d \in Workers :
        /\ c # d /\ creating[c].id = creating[d].id
        /\ creating[c].initial_balance # creating[d].initial_balance
        /\ ToNumeric(creating[c].initial_balance) # ToNumeric(creating[d].initial_balance)
        /\ creating[c].pc = "done" /\ creating[c].err = NoErr
        /\ creating[d].pc = "done" /\ creating[d].err = ErrAccountAlreadyExists
        /\ accounts[creating[c].id].balance = ToNumeric(creating[c].initial_balance)

\* The CREATE entries of audit_logs.
CreateEntries == {l \in audit_logs : l.action = "CREATE"}

\* C36: every CREATE audit entry is about an account that is in the store,
\* and its new value is a snapshot with that account's id and the initial
\* balance of the call that created it (which the store holds rounded to
\* cents); it has no old value.  It is written by a call whose INSERT has
\* succeeded, after that INSERT: a call that is rejected or fails writes no
\* audit entry, and no account has more than one CREATE entry.
CreateAuditAfterInsert ==
    [][/\ \A l \in CreateEntries :
             /\ l.entity_id \in AccountIDs /\ accounts[l.entity_id].exists
             /\ l.old_value = Null
             /\ l.new_value.id = l.entity_id
             /\ ToNumeric(l.new_value.balance) = accounts[l.entity_id].balance
       /\ \A a \in AccountIDs : Cardinality({l \in CreateEntries : l.entity_id = a}) <= 1
       /\ audit_logs' # audit_logs =>
             \E c \in Workers :
                 /\ creating[c].pc = "audit" /\ creating'[c].pc = "done"
                 /\ creating'[c].err = NoErr
                 /\ accounts[creating[c].id].exists
                 /\ audit_logs' = audit_logs \cup
                        {AuditLog("ACCOUNT", creating[c].id, "CREATE", Null,
                                  AccountBalanceSnapshot(creating[c].id,
                                                         creating[c].initial_balance), 0)}
       /\ \A c \in Workers :
             (creating[c].pc # "done" /\ creating'[c].pc = "done"
              /\ creating'[c].err # NoErr) => audit_logs' = audit_logs]_vars

\* An account with its CREATE entry, for which a second call was rejected
\* with AlreadyExists, next to an account whose audit write failed and which
\* has no entry.
C36_Witness ==
    \E c \in Workers, a, b \in AccountIDs :
        /\ creating[c].pc = "done" /\ creating[c].err = ErrAccountAlreadyExists
        /\ creating[c].id = a
        /\ Cardinality({l \in CreateEntries : l.entity_id = a}) = 1
        /\ accounts[b].exists /\ {l \in CreateEntries : l.entity_id = b} = {}

\* The debit and credit snapshots of a committing transfer are those of the
\* balances read under the row locks, and differ by the requested amount.
SnapshotsFollowLockedReads ==
    [][\A p \in Workers :
          (pc[p] = "commit" /\ pc'[p] = "done" /\ result'[p].err = NoErr) =>
              \A l \in tx[p].audits :
                  /\ l.action = "debit" =>
                        /\ l.entity_id = req[p].source_account_id
                        /\ l.old_value.balance = sourceAccount[p].balance
                        /\ l.old_value.balance = accounts[l.entity_id].balance
                        /\ l.new_value.balance = l.old_value.balance - req[p].amount
                  /\ l.action = "credit" =>
                        /\ l.entity_id = req[p].destination_account_id
                        /\ l.old_value.balance = destinationAccount[p].balance
                        /\ l.old_value.balance = accounts[l.entity_id].balance
                        /\ l.new_value.balance = l.old_value.balance + req[p].amount]_vars

\* C37: for every committed transfer whose audit entries were written, the
\* debit entry's old snapshot is the source balance read under the lock and
\* its new snapshot is that balance minus the amount, the credit entry's old
\* snapshot is the destination balance read under the lock and its new
\* snapshot is that balance plus the amount, and both new snapshots are the
\* balances the transfer commits.
AuditSnapshotsMatchCommitted ==
    [][\A p \in Workers :
          (pc[p] = "commit" /\ pc'[p] = "done" /\ result'[p].err = NoErr) =>
              /\ tx[p].audits \subseteq audit_logs'
              /\ \A l \in tx[p].audits :
                    /\ l.action = "debit" =>
                          /\ l.old_value.balance = sourceAccount[p].balance
                          /\ l.new_value.balance = sourceAccount[p].balance - req[p].amount
                          /\ l.new_value.balance = accounts'[l.entity_id].balance
                    /\ l.action = "credit" =>
                          /\ l.old_value.balance = destinationAccount[p].balance
                          /\ l.new_value.balance =
                                 destinationAccount[p].balance + req[p].amount
                          /\ l.new_value.balance = accounts'[l.entity_id].balance]_vars

\* C38: a transfer whose source does not exist leaves the first locked read
\* by returning, whether its destination exists or not: it reports the
\* source as missing (or the failure of that read), and has locked and read
\* no destination.  A transfer is at the read of its destination only with
\* its source read and locked, so NotFound for the destination is returned
\* by a unit of work that holds the source lock, and the rollback of that
\* return releases it: no lock is left and the source row is unchanged.
SourceMissingFirst ==
    [][\A p \in Workers :
          LET s == req[p].source_account_id
              d == req[p].destination_account_id IN
          /\ (pc[p] = "lockFirst" /\ pc'[p] # "lockFirst" /\ ~tx[p].snap[s].exists) =>
                /\ pc'[p] = "done"
                /\ result'[p].err \in {ErrAccountNotFound("source account"),
                                       NewTransactionError("get source account", DriverError)}
                /\ tx[p].locks = {} /\ tx'[p].locks = {}
                /\ destinationAccount'[p] = destinationAccount[p]
                /\ destinationAccount[p] = NoRow
          /\ pc[p] = "lockSecond" =>
                /\ tx[p].snap[s].exists /\ sourceAccount[p] = tx[p].snap[s]
                /\ tx[p].locks = {s} /\ destinationAccount[p] = NoRow
          /\ (result'[p].err = ErrAccountNotFound("destination account")
              /\ result[p].err # result'[p].err) =>
                /\ pc[p] = "lockSecond" /\ pc'[p] = "done"
                /\ ~tx[p].snap[d].exists
                /\ tx[p].locks = {s} /\ tx'[p].locks = {}
                /\ tx'[p].state = "rolled back"
                /\ \A q \in Workers : ~LockedByOther(q, s)'
                /\ accounts'[s] = accounts[s]]_vars

\* One transfer found no source and was told the source is missing, and its
\* destination does not exist even now; another had an existing source, was
\* told the destination is missing, and its rollback left the source
\* unlocked.
C38_Witness ==
    \E p, q \in Workers :
        /\ pc[p] = "done" /\ result[p].err = ErrAccountNotFound("source account")
        /\ ~accounts[req[p].destination_account_id].exists
        /\ destinationAccount[p] = NoRow
        /\ pc[q] = "done" /\ result[q].err = ErrAccountNotFound("destination account")
        /\ accounts[req[q].source_account_id].exists
        /\ tx[q].state = "rolled back"
        /\ \A w \in Workers : req[q].source_account_id \notin tx[w].locks

====
